---- MODULE Spec2Model ----
(***************************************************************************)
(* Grid-trading engine: the level state machine, its durable store         *)
(* (grid_levels, transactions), the engine's handlers (price trigger,      *)
(* fill / error notification, sweeper) split at every database round trip  *)
(* and gateway call, and the venue behind the order-assurance gateway.     *)
(***************************************************************************)
EXTENDS Integers, Sequences, FiniteSets, Bags, TLC

\* ------------------------------------------------------------------ bounds
\* orders the venue accepts in one run
MaxOrders == 2
\* callers whose identical placements overlap in the gateway scenario
NumRacers == 3
\* deliveries of one fill notification in the redelivery scenario
MaxDeliveries == 3
\* handler invocations (requests and sweeper runs) in one free run
MaxOps == 3
\* price triggers taken in the scenarios of racing triggers and of an
\* operator who disables levels
MaxTriggers == 4
\* the price monitor's clock runs from 0 to MaxTime
MaxTime == 6
\* cfg.TriggerIntervalMs and cfg.MinPriceChangePct of the price monitor, in
\* clock units and percent
TriggerInterval == 2
MinChangePct == 5

\* ------------------------------------------------------- fixed input sets
Levels == {1}
\* handler tasks that may be in flight at once in the free-running engine
MainThreads == {1, 2}
Threads == MainThreads \cup (1..NumRacers)
Orders == 1..MaxOrders
\* the levels of the scenarios with several levels
MultiLevels == {1, 2, 3}
TwinLevels == {1, 4}
\* order ids: the orders of a run and, before them, the buy orders of the
\* levels that are HOLDING when it starts
OrderIds == 1..(MaxOrders + Cardinality(MultiLevels))
Symbols == {"ETHUSDT"}
TriggerPrices == {4, 5, 6}
ErrMsgs == {"insufficient_funds"}

\* the grid: level 3 is a level of a second symbol; level 4 has the buy price
\* (and buy amount) of level 1 and a higher sell price, which unique_level
\* (symbol, buy_price, sell_price) admits
SymbolOf(l) == IF l = 3 THEN "BTCUSDT" ELSE "ETHUSDT"
BuyPrice(l) == IF l = 4 THEN 4 ELSE 2 + 2 * l
SellPrice(l) == 4 + 2 * l
BuyAmount(l) == 8
\* base quantity the gateway derives from a buy request (quote / price)
BuyQty(l) == BuyAmount(l) \div BuyPrice(l)

\* --------------------------------------------------------------- models
StateReady == "READY"
StatePlacingBuy == "PLACING_BUY"
StateBuyActive == "BUY_ACTIVE"
StateHolding == "HOLDING"
StatePlacingSell == "PLACING_SELL"
StateSellActive == "SELL_ACTIVE"
StateError == "ERROR"
GridState == {StateReady, StatePlacingBuy, StateBuyActive, StateHolding,
              StatePlacingSell, StateSellActive, StateError}

\* sql.NullString for order ids: 0 is NULL; decimal.NullDecimal for amounts
NoOrder == 0
NullAmt == [valid |-> FALSE, val |-> 0]
Amt(v) == [valid |-> TRUE, val |-> v]

VARIABLES
  levels,   \* table grid_levels: level id -> row
  txs,      \* table transactions, FILLED rows in insertion order
  placed,   \* table transactions, PLACED rows (a bag: no code reads them)
  errs,     \* table transactions, ERROR rows younger than one hour
  venue,    \* orders on the exchange, by order id
  th,       \* in-flight engine tasks
  hist      \* history of the run (never read by the engine)
audit == <<txs, placed, errs>>
vars == <<levels, txs, placed, errs, venue, th, hist>>

\* a freshly created grid level (Create: state READY, enabled true)
NewLevel(l) ==
  [id |-> l, state |-> StateReady, enabled |-> TRUE, filled |-> NullAmt,
   buyOrder |-> NoOrder, sellOrder |-> NoOrder, old |-> FALSE]

\* (variant: the buy trigger with >= in place of >)
CanPlaceBuyAtOrAbove(g, currentPrice) ==
  g.state = StateReady /\ g.enabled /\ currentPrice >= BuyPrice(g.id)
CanPlaceBuy(g, currentPrice) ==
  g.state = StateReady /\ g.enabled /\ currentPrice > BuyPrice(g.id)

\* (variant: the sell trigger with <= in place of <)
CanPlaceSellAtOrBelow(g, currentPrice) ==
  g.state = StateHolding /\ g.enabled /\ currentPrice <= SellPrice(g.id)
    /\ g.filled.valid /\ g.filled.val > 0
CanPlaceSell(g, currentPrice) ==
  g.state = StateHolding /\ g.enabled /\ currentPrice < SellPrice(g.id)
    /\ g.filled.valid /\ g.filled.val > 0

\* ------------------------------------------------ grid_levels repository
\* every UPDATE also sets state_changed_at = now: the row is no longer old
Touch(row, st) == [row EXCEPT !.state = st, !.old = FALSE]

\* UpdateState: UPDATE ... SET state WHERE id = ?   (no state guard)
UpdateStateWhere(row, st) == TRUE
UpdateStateSet(row, st) == Touch(row, st)

TryStartBuyOrderWhere(row) == row.state = StateReady /\ row.enabled
TryStartBuyOrderSet(row) == Touch(row, StatePlacingBuy)

TryStartSellOrderWhere(row) ==
  row.state = StateHolding /\ row.enabled /\ row.filled.valid
TryStartSellOrderSet(row) == Touch(row, StatePlacingSell)

\* (variant: WHERE id = ? without the state)
UpdateBuyOrderPlacedAnyState(row) == TRUE
UpdateBuyOrderPlacedWhere(row) == row.state = StatePlacingBuy
\* (variant: the state is advanced but the order id is not stored)
UpdateBuyOrderPlacedNoId(row, o) == Touch(row, StateBuyActive)
UpdateBuyOrderPlacedSet(row, o) ==
  [Touch(row, StateBuyActive) EXCEPT !.buyOrder = o]

UpdateSellOrderPlacedWhere(row) == row.state = StatePlacingSell
UpdateSellOrderPlacedSet(row, o) ==
  [Touch(row, StateSellActive) EXCEPT !.sellOrder = o]

ProcessBuyFillWhere(row) == row.state = StateBuyActive
ProcessBuyFillSet(row, amt) ==
  [Touch(row, StateHolding) EXCEPT !.filled = Amt(amt)]

ProcessSellFillWhere(row) == row.state = StateSellActive
ProcessSellFillSet(row) ==
  [Touch(row, StateReady) EXCEPT !.filled = NullAmt, !.sellOrder = NoOrder]

\* ascending list of a set of level ids (rowid order, for the queries
\* without ORDER BY)
RECURSIVE AscList(_)
AscList(S) ==
  IF S = {} THEN <<>>
  ELSE LET m == CHOOSE x \in S : \A y \in S : x <= y
       IN <<m>> \o AscList(S \ {m})

RowsOf(ids) == [k \in 1..Len(AscList(ids)) |-> levels[AscList(ids)[k]]]

\* buy_price and sell_price are TEXT columns, so ORDER BY buy_price ASC
\* compares the decimal strings byte by byte ('10' sorts before '4')
RECURSIVE DecimalText(_)
DecimalText(n) ==
  IF n < 10 THEN <<n>> ELSE DecimalText(n \div 10) \o <<n % 10>>
TextLess(a, b) ==
  \E k \in 1..(Len(a) + 1) :
    /\ \A j \in 1..(k - 1) : j <= Len(b) /\ a[j] = b[j]
    /\ k <= Len(b)
    /\ (k <= Len(a) => a[k] < b[k])
\* the rows come from the index of unique_level (symbol, buy_price,
\* sell_price): levels with one buy price follow in the order of their sell
\* price, which is text as well
PriceTextBefore(l1, l2) ==
  \/ TextLess(DecimalText(BuyPrice(l1)), DecimalText(BuyPrice(l2)))
  \/ /\ BuyPrice(l1) = BuyPrice(l2)
     /\ TextLess(DecimalText(SellPrice(l1)), DecimalText(SellPrice(l2)))
RECURSIVE ByBuyPrice(_)
ByBuyPrice(S) ==
  IF S = {} THEN <<>>
  ELSE LET m == CHOOSE x \in S : \A y \in S \ {x} : PriceTextBefore(x, y)
       IN <<m>> \o ByBuyPrice(S \ {m})
OrderedRows(ids) == [k \in 1..Len(ByBuyPrice(ids)) |-> levels[ByBuyPrice(ids)[k]]]

\* (variant: the symbol is not looked at)
GetBySymbolAny(sym) == OrderedRows(DOMAIN levels)
GetBySymbol(sym) == OrderedRows({l \in DOMAIN levels : SymbolOf(l) = sym})
\* the queries without ORDER BY read the rows from the index on state: the
\* rows of one state in rowid order, the states in the order of their names
StateRows(st, ids) == RowsOf({l \in ids : levels[l].state = st})
GetStuckInPlacingState ==
  LET stuck == {l \in DOMAIN levels : levels[l].old}
  IN StateRows(StatePlacingBuy, stuck) \o StateRows(StatePlacingSell, stuck)
GetAllActive ==
  StateRows(StateBuyActive, DOMAIN levels)
    \o StateRows(StateSellActive, DOMAIN levels)

\* QueryRow ... WHERE buy_order_id = ?  : first matching row, or none
MatchBuy(o) == {l \in DOMAIN levels : levels[l].buyOrder = o}
MatchSell(o) == {l \in DOMAIN levels : levels[l].sellOrder = o}
FirstOf(S) == CHOOSE x \in S : \A y \in S : x <= y

\* ------------------------------------------------ transactions repository
\* The one table is held as three parts, by status: the engine reads FILLED
\* rows by recency (GetLastBuyForLevel), ERROR rows by existence
\* (recordError) and never reads PLACED rows.
\* created_at is datetime('now'), whole seconds: same says that the row was
\* written in the second of the row before it.
TxRow(l, side, status, o, exec, coin, usdt, rel) ==
  [lvl |-> l, side |-> side, status |-> status, order |-> o, exec |-> exec,
   coin |-> coin, usdt |-> usdt, rel |-> rel, same |-> FALSE]
\* the seconds a new FILLED row may be written in, relative to the last row
SameSecond == IF Len(txs) = 0 THEN {FALSE} ELSE BOOLEAN
\* DEFAULT (datetime('now')) of the row an INSERT added to the table
CreatedAt(tbl, same) ==
  IF Len(tbl) > Len(txs) THEN [tbl EXCEPT ![Len(tbl)].same = same] ELSE tbl

\* CHECK constraints of the table: check_status (status IN ('FILLED',
\* 'ERROR')) and check_filled_has_order (a row that is not an ERROR row has an
\* order id and an executed price; exec = 0 is a NULL executed_price). An
\* INSERT that violates one fails and leaves the table as it was; the engine
\* logs the error and goes on.
TxAccepted(row) ==
  /\ row.status \in {"FILLED", "ERROR"}
  /\ row.status = "ERROR" \/ (row.order # NoOrder /\ row.exec # 0)

RecordBuyPlaced(l, o) ==
  LET row == TxRow(l, "BUY", "PLACED", o, 0, 0, BuyAmount(l), 0)
  IN IF TxAccepted(row) THEN placed (+) SetToBag({row}) ELSE placed
RecordSellPlaced(l, o, coin) ==
  LET row == TxRow(l, "SELL", "PLACED", o, 0, coin, 0, 0)
  IN IF TxAccepted(row) THEN placed (+) SetToBag({row}) ELSE placed
RecordBuyFilled(l, o, exec, coin, usdt) ==
  LET row == TxRow(l, "BUY", "FILLED", o, exec, coin, usdt, 0)
  IN IF TxAccepted(row) THEN Append(txs, row) ELSE txs
\* related_buy_id REFERENCES transactions(id): the Go int is always bound,
\* so "no buy" arrives as 0, which is the id of no row (ids start at 1). The
\* reference is checked only on a connection that had PRAGMA foreign_keys =
\* ON run on it (fk): NewConnection runs it once, and the pool replaces the
\* connection after ConnMaxLifetime without running it again.
ForeignKeyHolds(row, fk) == ~fk \/ row.rel \in 1..Len(txs)
RecordSellFilled(l, o, exec, coin, usdt, rel, fk) ==
  LET row == TxRow(l, "SELL", "FILLED", o, exec, coin, usdt, rel)
  IN IF TxAccepted(row) /\ ForeignKeyHolds(row, fk) THEN Append(txs, row) ELSE txs

\* recordError: INSERT ... WHERE NOT EXISTS (a row of the same level, side,
\* status ERROR, target price and message within the last hour); the target
\* price is the level's buy or sell price, fixed by level and side
ErrRow(l, side, code, msg) ==
  [lvl |-> l, side |-> side, status |-> "ERROR", code |-> code, msg |-> msg]
\* (variant: no row counts as a duplicate)
ErrorDuplicateNever(l, side, msg) == FALSE
ErrorDuplicate(l, side, msg) ==
  \E e \in errs : e.lvl = l /\ e.side = side /\ e.msg = msg
\* (variant: the ERROR row is never written)
recordErrorDropped(l, side, code, msg) == errs
recordError(l, side, code, msg) ==
  IF ErrorDuplicate(l, side, msg) THEN errs
  ELSE errs \cup {ErrRow(l, side, code, msg)}

\* GetLastBuyForLevel: ORDER BY created_at DESC LIMIT 1 over the BUY/FILLED
\* rows of the level, 0 if none; of the rows written in the latest second
\* the first inserted is returned
BuyFilledIdx(l) ==
  {k \in 1..Len(txs) : txs[k].lvl = l /\ txs[k].side = "BUY"
                        /\ txs[k].status = "FILLED"}
EqualCreatedAt(i, k) == \A j \in (i + 1)..k : txs[j].same
GetLastBuyForLevel(l) ==
  IF BuyFilledIdx(l) = {} THEN 0
  ELSE LET last == CHOOSE k \in BuyFilledIdx(l) : \A j \in BuyFilledIdx(l) : j <= k
           T == {i \in BuyFilledIdx(l) : EqualCreatedAt(i, last)}
       IN CHOOSE i \in T : \A j \in T : i <= j

\* ------------------------------------------------------- venue / gateway
\* cached: the gateway's idempotency cache holds the order under its key
NoVenueOrder ==
  [st |-> "none", side |-> "", lvl |-> 0, qty |-> 0, cached |-> FALSE]
\* the venue numbers the orders it accepts; a run may add MaxOrders orders to
\* the ones the venue holds at its start
NextOrderId == Cardinality({o \in DOMAIN venue : venue[o].st # "none"}) + 1

\* idempotency cache: the order that the cache holds under the key (symbol,
\* side, price, quantity) and that is still open on the venue
createCacheKey(side, l, qty) ==
  <<SymbolOf(l), side, IF side = "buy" THEN BuyPrice(l) ELSE SellPrice(l), qty>>
CacheHits(side, l, qty) ==
  {o \in DOMAIN venue : venue[o].st = "open" /\ venue[o].cached
                  /\ createCacheKey(venue[o].side, venue[o].lvl, venue[o].qty)
                       = createCacheKey(side, l, qty)}

\* what the gateway reports for a filled order: executed quantity and
\* average fill price (one tick better than the limit)
VenueFillAmount(o) == venue[o].qty
VenueFillPrice(o) ==
  IF venue[o].side = "buy" THEN BuyPrice(venue[o].lvl) - 1
  ELSE SellPrice(venue[o].lvl) + 1

\* err.Error() of a failed PlaceOrder call, as the engine's client returns
\* it: the gateway answered with an error status, or the request got no
\* answer
StatusError == "unexpected status code: 500"
SendError == "failed to send request"
PlaceErrors == {StatusError, SendError}

\* outcomes of one PlaceOrder call as the engine sees them: an error, a new
\* venue order, or the cached open order with the same key. id is the venue
\* order the call created or reused. An error may come after the venue took
\* the order: the gateway lost the venue's answer and returned an error
\* before storeInCache, or the engine's client gave up waiting while the
\* gateway completed the placement.
PlaceOutcomes(side, l, qty) ==
  {[ok |-> FALSE, id |-> NoOrder, new |-> FALSE, cached |-> FALSE, msg |-> m] :
     m \in PlaceErrors}
  \cup (IF NextOrderId \in DOMAIN venue
        THEN {[ok |-> TRUE, id |-> NextOrderId, new |-> TRUE, cached |-> TRUE,
               msg |-> ""],
              [ok |-> FALSE, id |-> NextOrderId, new |-> TRUE, cached |-> FALSE,
               msg |-> StatusError],
              [ok |-> FALSE, id |-> NextOrderId, new |-> TRUE, cached |-> TRUE,
               msg |-> SendError]}
        ELSE {})
  \cup {[ok |-> TRUE, id |-> o, new |-> FALSE, cached |-> TRUE, msg |-> ""] :
          o \in CacheHits(side, l, qty)}
\* the order id in the response the engine reads
ResponseId(out) == IF out.ok THEN out.id ELSE NoOrder

\* createCacheKey: symbol (of the level), side, price (of the level and side)
\* and quantity
SameKey(a, b) ==
  createCacheKey(a.side, a.lvl, a.qty) = createCacheKey(b.side, b.lvl, b.qty)

\* storeInCache: orderCache[key] = order, replacing what the key held
StoreInCache(v, o) ==
  [x \in DOMAIN v |->
     IF x = o THEN [v[x] EXCEPT !.cached = TRUE]
     ELSE IF v[x].st # "none" /\ SameKey(v[x], v[o])
     THEN [v[x] EXCEPT !.cached = FALSE] ELSE v[x]]

\* updateCache(orders): the cache is emptied and refilled with the NEW and
\* PARTIALLY_FILLED orders of the answer; of the orders with one key the one
\* that comes last in the answer stays (keep). Every order that is not in
\* the answer leaves the cache, whatever its symbol and however recently it
\* was stored.
UpdateCache(v, keep) ==
  [o \in DOMAIN v |-> [v[o] EXCEPT !.cached = o \in keep]]
\* GET /api/v3/openOrders: the open orders of the symbol, of every symbol
\* when the symbol is ""
OpenOrderSymbols == {"", "ETHUSDT", "BTCUSDT"}
OpenOrdersOf(v, sym) ==
  {o \in DOMAIN v : v[o].st = "open" /\ (sym = "" \/ SymbolOf(v[o].lvl) = sym)}
OpenOrdersKept(v, sym) ==
  LET open == OpenOrdersOf(v, sym)
  IN {K \in SUBSET open :
        /\ \A o \in open : \E k \in K : SameKey(v[o], v[k])
        /\ \A a, b \in K : a # b => ~SameKey(v[a], v[b])}

VenueAfter(out, side, l, qty) ==
  LET v == [venue EXCEPT ![out.id] =
              [st |-> "open", side |-> side, lvl |-> l, qty |-> qty,
               cached |-> FALSE]]
  IN IF ~out.new THEN venue
     ELSE IF out.cached THEN StoreInCache(v, out.id) ELSE v

\* ------------------------------------------------------ handler threads
\* One record per in-flight engine task (HTTP handler or sweeper run). pc
\* names the next database round trip or gateway call the task will make;
\* the computation between two such calls is part of the step that makes
\* the first of them. list/i/price are the loop the task is in, lvl/filled
\* the level.ID and level.FilledAmount of the snapshot it works on.
Idle ==
  [pc |-> "idle", op |-> "", ret |-> "", price |-> 0, list |-> <<>>, i |-> 0,
   lvl |-> 0, filled |-> NullAmt, order |-> NoOrder, isBuy |-> FALSE,
   amt |-> 0, fprice |-> 0, resp |-> NoOrder, rel |-> 0, relUsdt |-> 0,
   msg |-> ""]

NeedsCheck(g) ==
  \/ g.state = StateBuyActive /\ g.buyOrder # NoOrder
  \/ g.state = StateSellActive /\ g.sellOrder # NoOrder
CheckIsBuy(g) == g.state = StateBuyActive /\ g.buyOrder # NoOrder

MinOf(S) == CHOOSE x \in S : \A y \in S : x <= y

\* the task at the head of one of its loops: run the loop up to its next
\* database or gateway call.
\*   probe  - ProcessPriceTrigger, "check active orders first"
\*   place  - ProcessPriceTrigger, "place new orders based on price triggers"
\*   stuck  - SyncOrders, loop over the stuck PLACING_* levels
\*   active - SyncOrders, loop over the BUY_ACTIVE / SELL_ACTIVE levels
RECURSIVE Cont(_)
Cont(r) ==
  IF r.pc \in {"probe", "active"}
  THEN LET S == {k \in r.i..Len(r.list) : NeedsCheck(r.list[k])}
       IN IF S = {}
          THEN IF r.pc = "probe" THEN Cont([r EXCEPT !.pc = "place", !.i = 1])
               ELSE Idle
          ELSE LET k == MinOf(S)
                   g == r.list[k]
                   rest == Cont([r EXCEPT !.i = k + 1])
               IN [r EXCEPT !.pc = "chk", !.lvl = g.id,
                     !.isBuy = CheckIsBuy(g),
                     !.order = IF CheckIsBuy(g) THEN g.buyOrder ELSE g.sellOrder,
                     \* nothing left to do after this call: forget the loop
                     !.ret = IF rest = Idle THEN "" ELSE r.pc,
                     !.i = IF rest = Idle THEN 0 ELSE k + 1,
                     !.list = IF rest = Idle THEN <<>> ELSE r.list,
                     !.price = IF rest = Idle THEN 0 ELSE r.price]
  ELSE IF r.pc = "place"
  THEN LET S == {k \in r.i..Len(r.list) :
                   CanPlaceBuy(r.list[k], r.price) \/ CanPlaceSell(r.list[k], r.price)}
       IN IF S = {} THEN Idle
          ELSE LET k == MinOf(S)
                   g == r.list[k]
                   buy == CanPlaceBuy(g, r.price)
                   rest == Cont([r EXCEPT !.i = k + 1])
               IN [r EXCEPT !.pc = IF buy THEN "tb_start" ELSE "ts_start",
                     !.lvl = g.id, !.isBuy = buy,
                     !.filled = IF buy THEN NullAmt ELSE g.filled,
                     !.ret = IF rest = Idle THEN "" ELSE "place",
                     !.i = IF rest = Idle THEN 0 ELSE k + 1,
                     !.list = IF rest = Idle THEN <<>> ELSE r.list,
                     !.price = IF rest = Idle THEN 0 ELSE r.price]
  ELSE \* stuck
       IF r.i > Len(r.list)
       THEN [r EXCEPT !.pc = "active_load", !.list = <<>>, !.i = 0]
       ELSE LET g == r.list[r.i]
                buy == g.state = StatePlacingBuy
                o == IF buy THEN g.buyOrder ELSE g.sellOrder
                last == r.i = Len(r.list)
            IN [r EXCEPT !.lvl = g.id, !.isBuy = buy, !.order = o,
                  !.filled = IF buy \/ o # NoOrder THEN NullAmt ELSE g.filled,
                  !.pc = IF o # NoOrder THEN "chk"
                         ELSE IF buy \/ g.filled.valid THEN "sy_gw"
                         ELSE "sy_revert",
                  !.ret = "stuck",
                  !.i = IF last THEN 1 ELSE r.i + 1,
                  !.list = IF last THEN <<>> ELSE r.list]

\* return from tryPlace*Order / Process*FillNotification /
\* checkAndUpdateOrderStatus to the loop that called it, or end the handler
Ret(r) ==
  IF r.ret = "" THEN Idle
  ELSE Cont([Idle EXCEPT !.pc = r.ret, !.op = r.op, !.price = r.price,
                         !.list = r.list, !.i = r.i])

\* the number of invocations a run may take
OpBudget == IF hist.mode = "short" THEN MaxOps - 1 ELSE MaxOps

\* a task slot is free and the run may take one more invocation; slots are
\* interchangeable, so the lowest free one is taken
CanStart(t) ==
  /\ th[t].pc = "idle"
  /\ hist.started < OpBudget
  /\ \A u \in Threads : u < t => th[u].pc # "idle"

\* ------------------------------------------------------------------ history
\* mode names the scenario: "free" (the engine under arbitrary requests),
\* "short" (the same for one invocation less),
\* "race" (price triggers racing for one level), "seq" (one notification
\* redelivered). The counters record what the run did.
NoHist ==
  [mode |-> "free",
   buyAdv |-> [o \in OrderIds |-> 0], sellAdv |-> [o \in OrderIds |-> 0],
   fails |-> [l \in Levels |-> 0],
   recs |-> [l \in Levels |-> [side \in {"BUY", "SELL"} |-> <<>>]],
   started |-> 0,
   delivered |-> 0,
   note |-> [order |-> NoOrder, amt |-> 0, fp |-> 0, side |-> ""],
   after1 |-> <<>>,
   eval |-> [done |-> FALSE, price |-> 0, buy |-> FALSE, sell |-> FALSE],
   path |-> "", runs |-> 0, start |-> <<>>, first |-> <<>>,
   ids |-> {},
   grid |-> [params |-> <<>>, ran |-> {}, n |-> 0, last |-> "", again |-> FALSE,
             code |-> 0, seq |-> 0, by |-> 0, rerun |-> {}],
   answers |-> {},
   req |-> [kind |-> "", wellFormed |-> TRUE, status |-> "", side |-> "",
            order |-> NoOrder],
   code |-> 0,
   now |-> 0,
   mon |-> [n |-> 0, out |-> "", ticked |-> FALSE,
            cur |-> [at |-> 0, price |-> 0, ok |-> FALSE],
            okPrev |-> [at |-> 0, price |-> 0, ok |-> FALSE],
            okCur |-> [at |-> 0, price |-> 0, ok |-> FALSE]],
   abandoned |-> {},
   rec |-> [wasFilled |-> FALSE, answer |-> "", order |-> NoOrder,
            isBuy |-> FALSE],
   multi |-> [tried |-> {}, placed |-> {}, failed |-> {}, snap |-> <<>>,
              price |-> 0],
   place |-> [n |-> 0, side |-> "", price |-> 0, amount |-> 0, out |-> "",
              id |-> NoOrder, prices |-> [o \in Orders |-> 0]],
   errlog |-> <<>>]

\* a guarded READY->PLACING_BUY / HOLDING->PLACING_SELL update hit its row
OnHit(h, l) ==
  IF h.mode = "multi" THEN [h EXCEPT !.multi.tried = @ \cup {l}] ELSE h
\* a PlaceOrder call for level l returned
OnCall(h, l, ok) ==
  IF h.mode = "race"
  THEN [h EXCEPT !.fails[l] = IF ok THEN @ ELSE @ + 1]
  ELSE IF h.mode = "multi"
  THEN [h EXCEPT !.multi.placed = IF ok THEN @ \cup {l} ELSE @,
                 !.multi.failed = IF ok THEN @ ELSE @ \cup {l}]
  ELSE h

\* RecordBuyPlaced / RecordSellPlaced was called for order o of level l: one
\* more PLACED row was handed to the transactions table in the level's
\* current cycle, whether or not a row for the same order was handed before
OnRecord(h, l, side, o) ==
  IF h.mode = "race" THEN [h EXCEPT !.recs[l][side] = Append(@, o)] ELSE h
\* ProcessSellFill advanced the level to READY: its cycle is closed
OnCycleClosed(h, l) ==
  IF h.mode = "race"
  THEN [h EXCEPT !.recs[l] = [side \in {"BUY", "SELL"} |-> <<>>]]
  ELSE h

\* ProcessPriceTrigger's return value after tryPlaceBuyOrder / tryPlaceSellOrder
\* returned placeErr ("" is nil): the error is logged, the loop goes on and
\* the function returns nil
ProcessPriceTriggerReturns(placeErr) == ""
\* handlePriceTrigger: 500 if ProcessPriceTrigger returned an error, else 200
handlePriceTrigger(err) == IF err # "" THEN 500 ELSE 200
\* recordError is called at time h.now: the ERROR rows ever inserted, with
\* their created_at
OnError(h, l, side, code, msg) ==
  IF h.mode = "errors" /\ ~ErrorDuplicate(l, side, msg)
  THEN [h EXCEPT !.errlog = Append(@, [row |-> ErrRow(l, side, code, msg),
                                       at |-> h.now])]
  ELSE h
\* a racing trigger whose last placement returned placeErr ends: the status
\* its request is answered with
OnAnswer(h, r, placeErr) ==
  IF h.mode \in {"race", "multi"} /\ r.op = "trigger" /\ Ret(r) = Idle
  THEN [h EXCEPT !.answers = @ \cup
          {[failed |-> placeErr # "",
            code |-> handlePriceTrigger(ProcessPriceTriggerReturns(placeErr))]}]
  ELSE h

Init ==
  /\ levels = [l \in Levels |-> NewLevel(l)]
  /\ txs = <<>>
  /\ placed = EmptyBag
  /\ errs = {}
  /\ venue = [o \in Orders |-> NoVenueOrder]
  /\ th = [t \in Threads |-> Idle]
  /\ hist = NoHist

\* ---------------------------------------------------- ProcessPriceTrigger
\* GetBySymbol, then the two loops up to the first call they make
TriggerTask(sym, p) ==
  Cont([Idle EXCEPT !.pc = "probe", !.op = "trigger", !.price = p,
                    !.list = GetBySymbol(sym), !.i = 1])

StartTrigger(t, sym, p) ==
  /\ th' = [th EXCEPT ![t] = TriggerTask(sym, p)]
  /\ hist' = [hist EXCEPT !.started = @ + 1]
  /\ UNCHANGED <<levels, audit, venue>>

\* --------------------------------------------------------- tryPlaceBuyOrder
TbStart(t) ==
  LET r == th[t] l == r.lvl
  IN /\ r.pc = "tb_start"
     /\ IF TryStartBuyOrderWhere(levels[l])
        THEN /\ levels' = [levels EXCEPT ![l] = TryStartBuyOrderSet(@)]
             /\ th' = [th EXCEPT ![t].pc = "tb_gw"]
             /\ hist' = OnHit(hist, l)
        ELSE /\ th' = [th EXCEPT ![t] = Ret(r)]
             /\ UNCHANGED <<levels, hist>>
     /\ UNCHANGED <<audit, venue>>

TbGateway(t) ==
  LET r == th[t] l == r.lvl
  IN /\ r.pc = "tb_gw"
     /\ \E out \in PlaceOutcomes("buy", l, BuyQty(l)) :
          /\ venue' = VenueAfter(out, "buy", l, BuyQty(l))
          /\ th' = [th EXCEPT ![t].pc = IF out.ok THEN "tb_upd" ELSE "tb_revert",
                              ![t].resp = ResponseId(out), ![t].msg = out.msg]
          /\ hist' = OnCall(hist, l, out.ok)
     /\ UNCHANGED <<levels, audit>>

TbRevert(t) ==
  LET r == th[t] l == r.lvl
  IN /\ r.pc = "tb_revert"
     /\ levels' = [levels EXCEPT ![l] =
          IF UpdateStateWhere(@, StateReady) THEN UpdateStateSet(@, StateReady)
          ELSE @]
     /\ th' = [th EXCEPT ![t].pc = "tb_err"]
     /\ UNCHANGED <<audit, venue, hist>>

TbError(t) ==
  LET r == th[t] l == r.lvl
  IN /\ r.pc = "tb_err"
     /\ errs' = recordError(l, "BUY", "order_placement_failed", r.msg)
     /\ th' = [th EXCEPT ![t] = Ret(r)]
     /\ hist' = OnAnswer(hist, r, "failed to place buy order")
     /\ UNCHANGED <<levels, txs, placed, venue>>

TbUpdate(t) ==
  LET r == th[t] l == r.lvl
  IN /\ r.pc = "tb_upd"
     /\ IF UpdateBuyOrderPlacedWhere(levels[l])
        THEN /\ levels' = [levels EXCEPT ![l] = UpdateBuyOrderPlacedSet(@, r.resp)]
             /\ th' = [th EXCEPT ![t].pc = "tb_rec"]
             /\ UNCHANGED hist
        ELSE /\ th' = [th EXCEPT ![t] = Ret(r)]
             /\ hist' = [hist EXCEPT !.abandoned = @ \cup {"buy"}]
             /\ UNCHANGED levels
     /\ UNCHANGED <<audit, venue>>

TbRecord(t) ==
  LET r == th[t] l == r.lvl
  IN /\ r.pc = "tb_rec"
     /\ placed' = RecordBuyPlaced(l, r.resp)
     /\ th' = [th EXCEPT ![t] = Ret(r)]
     /\ hist' = OnAnswer(OnRecord(hist, l, "BUY", r.resp), r, "")
     /\ UNCHANGED <<levels, txs, errs, venue>>

\* -------------------------------------------------------- tryPlaceSellOrder
TsStart(t) ==
  LET r == th[t] l == r.lvl
  IN /\ r.pc = "ts_start"
     /\ IF TryStartSellOrderWhere(levels[l])
        THEN /\ levels' = [levels EXCEPT ![l] = TryStartSellOrderSet(@)]
             /\ th' = [th EXCEPT ![t].pc =
                         IF r.filled.valid THEN "ts_gw" ELSE "ts_nofill"]
             /\ hist' = OnHit(hist, l)
        ELSE /\ th' = [th EXCEPT ![t] = Ret(r)]
             /\ UNCHANGED <<levels, hist>>
     /\ UNCHANGED <<audit, venue>>

TsGateway(t) ==
  LET r == th[t] l == r.lvl
  IN /\ r.pc = "ts_gw"
     /\ \E out \in PlaceOutcomes("sell", l, r.filled.val) :
          /\ venue' = VenueAfter(out, "sell", l, r.filled.val)
          /\ th' = [th EXCEPT ![t].pc = IF out.ok THEN "ts_upd" ELSE "ts_revert",
                              ![t].resp = ResponseId(out), ![t].msg = out.msg]
          /\ hist' = OnCall(hist, l, out.ok)
     /\ UNCHANGED <<levels, audit>>

\* UpdateState(level.ID, HOLDING): after a failed placement, followed by
\* RecordSellError; or for a snapshot without filled amount ("no filled
\* amount for level"), followed by the return
TsRevert(t) ==
  LET r == th[t] l == r.lvl
  IN /\ r.pc \in {"ts_revert", "ts_nofill"}
     /\ levels' = [levels EXCEPT ![l] =
          IF UpdateStateWhere(@, StateHolding) THEN UpdateStateSet(@, StateHolding)
          ELSE @]
     /\ th' = [th EXCEPT ![t] =
          IF r.pc = "ts_revert" THEN [r EXCEPT !.pc = "ts_err"] ELSE Ret(r)]
     /\ UNCHANGED <<audit, venue, hist>>

TsError(t) ==
  LET r == th[t] l == r.lvl
  IN /\ r.pc = "ts_err"
     /\ errs' = recordError(l, "SELL", "order_placement_failed", r.msg)
     /\ th' = [th EXCEPT ![t] = Ret(r)]
     /\ hist' = OnAnswer(hist, r, "failed to place sell order")
     /\ UNCHANGED <<levels, txs, placed, venue>>

TsUpdate(t) ==
  LET r == th[t] l == r.lvl
  IN /\ r.pc = "ts_upd"
     /\ IF UpdateSellOrderPlacedWhere(levels[l])
        THEN /\ levels' = [levels EXCEPT ![l] = UpdateSellOrderPlacedSet(@, r.resp)]
             /\ th' = [th EXCEPT ![t].pc = "ts_rec"]
             /\ UNCHANGED hist
        ELSE /\ th' = [th EXCEPT ![t] = Ret(r)]
             /\ hist' = [hist EXCEPT !.abandoned = @ \cup {"sell"}]
             /\ UNCHANGED levels
     /\ UNCHANGED <<audit, venue>>

TsRecord(t) ==
  LET r == th[t] l == r.lvl
  IN /\ r.pc = "ts_rec"
     /\ placed' = RecordSellPlaced(l, r.resp, r.filled.val)
     /\ th' = [th EXCEPT ![t] = Ret(r)]
     /\ hist' = OnAnswer(OnRecord(hist, l, "SELL", r.resp), r, "")
     /\ UNCHANGED <<levels, txs, errs, venue>>

\* ------------------------------------------------ checkAndUpdateOrderStatus
\* answers of GetOrderStatus for order o: a transport / gateway error, the
\* order's status, or 404 for a cancelled order the venue no longer lists
StatusAnswers(o) ==
  {"error", venue[o].st}
    \cup (IF venue[o].st = "cancelled" THEN {"notfound"} ELSE {})

\* the task after GetOrderStatus answered a
AfterStatus(r, a) ==
  IF a \in {"error", "open"} THEN Ret(r)
  ELSE IF a = "filled"
  THEN [r EXCEPT !.pc = IF r.isBuy THEN "bf_get" ELSE "sf_get",
                 !.amt = VenueFillAmount(r.order),
                 !.fprice = VenueFillPrice(r.order)]
  ELSE [r EXCEPT !.pc = "chk_revert"]

CheckStatus(t) ==
  LET r == th[t]
  IN /\ r.pc = "chk"
     /\ \E a \in StatusAnswers(r.order) :
          th' = [th EXCEPT ![t] = AfterStatus(r, a)]
     /\ UNCHANGED <<levels, audit, venue, hist>>

RevertState(isBuy) == IF isBuy THEN StateReady ELSE StateHolding

\* order not found or cancelled: UpdateState(level.ID, READY | HOLDING)
CheckRevert(t) ==
  LET r == th[t] l == r.lvl st == RevertState(r.isBuy)
  IN /\ r.pc = "chk_revert"
     /\ levels' = [levels EXCEPT ![l] =
          IF UpdateStateWhere(@, st) THEN UpdateStateSet(@, st) ELSE @]
     /\ th' = [th EXCEPT ![t] = Ret(r)]
     /\ UNCHANGED <<audit, venue, hist>>

\* ----------------------------------------------- ProcessBuyFillNotification
\* GetByBuyOrderID and the state check on the row it returned
BuyFillLookup(r) ==
  IF MatchBuy(r.order) = {} THEN Ret(r)
  ELSE LET l == FirstOf(MatchBuy(r.order))
       IN IF levels[l].state # StateBuyActive THEN Ret(r)
          ELSE [r EXCEPT !.pc = "bf_upd", !.lvl = l]

BfGet(t) ==
  /\ th[t].pc = "bf_get"
  /\ th' = [th EXCEPT ![t] = BuyFillLookup(th[t])]
  /\ UNCHANGED <<levels, audit, venue, hist>>

\* repo.ProcessBuyFill: zero rows affected is not an error
BfUpdate(t) ==
  LET r == th[t] l == r.lvl
  IN /\ r.pc = "bf_upd"
     /\ IF ProcessBuyFillWhere(levels[l])
        THEN /\ levels' = [levels EXCEPT ![l] = ProcessBuyFillSet(@, r.amt)]
             /\ hist' = [hist EXCEPT !.buyAdv[r.order] = @ + 1]
        ELSE UNCHANGED <<levels, hist>>
     /\ th' = [th EXCEPT ![t].pc = "bf_rec"]
     /\ UNCHANGED <<audit, venue>>

BfRecord(t) ==
  LET r == th[t] l == r.lvl
  IN /\ r.pc = "bf_rec"
     /\ \E same \in SameSecond :
          txs' = CreatedAt(RecordBuyFilled(l, r.order, r.fprice, r.amt,
                                           r.amt * r.fprice), same)
     /\ th' = [th EXCEPT ![t].pc = "bf_reload"]
     /\ UNCHANGED <<levels, placed, errs, venue, hist>>

\* GetByID, then tryPlaceSellOrder(updatedLevel) if the level is HOLDING
BfReload(t) ==
  LET r == th[t] l == r.lvl
  IN /\ r.pc = "bf_reload"
     /\ th' = [th EXCEPT ![t] =
          IF levels[l].state = StateHolding
          THEN [r EXCEPT !.pc = "ts_start", !.filled = levels[l].filled,
                         !.order = NoOrder, !.amt = 0, !.fprice = 0]
          ELSE Ret(r)]
     /\ UNCHANGED <<levels, audit, venue, hist>>

\* ---------------------------------------------- ProcessSellFillNotification
SellFillLookup(r) ==
  IF MatchSell(r.order) = {} THEN Ret(r)
  ELSE LET l == FirstOf(MatchSell(r.order))
       IN IF levels[l].state # StateSellActive THEN Ret(r)
          ELSE [r EXCEPT !.pc = "sf_last", !.lvl = l]

SfGet(t) ==
  /\ th[t].pc = "sf_get"
  /\ th' = [th EXCEPT ![t] = SellFillLookup(th[t])]
  /\ UNCHANGED <<levels, audit, venue, hist>>

SfLastBuy(t) ==
  LET r == th[t] k == GetLastBuyForLevel(r.lvl)
  IN /\ r.pc = "sf_last"
     /\ th' = [th EXCEPT ![t].pc = "sf_upd", ![t].rel = k,
                         ![t].relUsdt = IF k = 0 THEN 0 ELSE txs[k].usdt]
     /\ UNCHANGED <<levels, audit, venue, hist>>

SfUpdate(t) ==
  LET r == th[t] l == r.lvl
  IN /\ r.pc = "sf_upd"
     /\ IF ProcessSellFillWhere(levels[l])
        THEN /\ levels' = [levels EXCEPT ![l] = ProcessSellFillSet(@)]
             /\ hist' = OnCycleClosed([hist EXCEPT !.sellAdv[r.order] = @ + 1], l)
        ELSE UNCHANGED <<levels, hist>>
     /\ th' = [th EXCEPT ![t].pc = "sf_rec"]
     /\ UNCHANGED <<audit, venue>>

\* relatedBuyID stays 0 unless the buy row exists with a positive amount_usdt
RelatedBuyID(rel, relUsdt) == IF rel # 0 /\ relUsdt > 0 THEN rel ELSE 0

SfRecord(t) ==
  LET r == th[t] l == r.lvl
  IN /\ r.pc = "sf_rec"
     /\ \E fk \in BOOLEAN, same \in SameSecond :
          txs' = CreatedAt(RecordSellFilled(l, r.order, r.fprice, r.amt,
                                            r.amt * r.fprice,
                                            RelatedBuyID(r.rel, r.relUsdt), fk),
                           same)
     /\ th' = [th EXCEPT ![t] = Ret(r)]
     /\ UNCHANGED <<levels, placed, errs, venue, hist>>

\* handleFillNotification: the status the request is answered with and the
\* task it runs ("" for none)
handleFillNotification(req) ==
  IF ~req.wellFormed THEN [code |-> 400, run |-> ""]
  ELSE IF req.status # "filled" THEN [code |-> 200, run |-> ""]
  ELSE IF req.side = "buy" THEN [code |-> 200, run |-> "buy"]
  ELSE IF req.side = "sell" THEN [code |-> 200, run |-> "sell"]
  ELSE [code |-> 400, run |-> ""]

\* the side of an order in the exchange's text: BinanceClient.PlaceOrder
\* sends strings.ToUpper(side), and the exchange returns the order with it
BinanceSide(side) ==
  IF side = "buy" THEN "BUY" ELSE IF side = "sell" THEN "SELL" ELSE side

\* sendFillNotification: the notification the gateway posts for the venue's
\* fill of order o; Side is the order's side as the exchange returned it
FillRequest(o) ==
  [kind |-> "fill", wellFormed |-> TRUE, status |-> "filled",
   side |-> BinanceSide(venue[o].side), order |-> o]

\* the notification of the same fill as the API description words it, with
\* the side in the engine's lower-case text
DocumentedFillRequest(o) ==
  [FillRequest(o) EXCEPT !.side = venue[o].side]

\* handleFillNotification for a request it accepts (status "filled", side
\* "buy" or "sell", the side of the order): the first read of the handler is
\* part of the step that starts it
FillTask(o, amt, fp) ==
  LET r == [Idle EXCEPT !.op = "fill", !.order = o, !.amt = amt, !.fprice = fp]
  IN IF venue[o].side = "buy" THEN BuyFillLookup(r) ELSE SellFillLookup(r)

StartFill(t, o, amt, fp) ==
  /\ venue[o].st = "filled"
  /\ th' = [th EXCEPT ![t] = FillTask(o, amt, fp)]
  /\ hist' = [hist EXCEPT !.started = @ + 1]
  /\ UNCHANGED <<levels, audit, venue>>

\* ------------------------------------------------- ProcessErrorNotification
StartError(t, o, msg) ==
  /\ venue[o].st # "none"
  /\ LET buy == venue[o].side = "buy"
         M == IF buy THEN MatchBuy(o) ELSE MatchSell(o)
     IN th' = [th EXCEPT ![t] =
          IF M = {} THEN Idle
          ELSE [Idle EXCEPT !.pc = "er_upd", !.op = "error", !.order = o,
                            !.isBuy = buy, !.lvl = FirstOf(M), !.msg = msg]]
  /\ hist' = [hist EXCEPT !.started = @ + 1]
  /\ UNCHANGED <<levels, audit, venue>>

ErUpdate(t) ==
  LET r == th[t] l == r.lvl
  IN /\ r.pc = "er_upd"
     /\ levels' = [levels EXCEPT ![l] =
          IF UpdateStateWhere(@, StateError) THEN UpdateStateSet(@, StateError)
          ELSE @]
     /\ th' = [th EXCEPT ![t].pc = "er_rec"]
     /\ UNCHANGED <<audit, venue, hist>>

ErRecord(t) ==
  LET r == th[t] l == r.lvl
  IN /\ r.pc = "er_rec"
     /\ errs' = recordError(l, IF r.isBuy THEN "BUY" ELSE "SELL", "order_error", r.msg)
     /\ th' = [th EXCEPT ![t] = Idle]
     /\ hist' = OnError(hist, l, IF r.isBuy THEN "BUY" ELSE "SELL", "order_error", r.msg)
     /\ UNCHANGED <<levels, txs, placed, venue>>

\* ------------------------------------------------------------- SyncOrders
StartSync(t) ==
  /\ th' = [th EXCEPT ![t] =
       Cont([Idle EXCEPT !.pc = "stuck", !.op = "sync",
                         !.list = GetStuckInPlacingState, !.i = 1])]
  /\ hist' = [hist EXCEPT !.started = @ + 1]
  /\ UNCHANGED <<levels, audit, venue>>

\* "retry order placement (idempotent)"
SyGateway(t) ==
  LET r == th[t] l == r.lvl
      side == IF r.isBuy THEN "buy" ELSE "sell"
      qty == IF r.isBuy THEN BuyQty(l) ELSE r.filled.val
  IN /\ r.pc = "sy_gw"
     /\ \E out \in PlaceOutcomes(side, l, qty) :
          /\ venue' = VenueAfter(out, side, l, qty)
          /\ th' = [th EXCEPT ![t].pc = IF out.ok THEN "sy_upd" ELSE "sy_revert",
                              ![t].resp = ResponseId(out), ![t].msg = out.msg]
          /\ hist' = OnCall(hist, l, out.ok)
     /\ UNCHANGED <<levels, audit>>

\* Update*OrderPlaced with the result ignored; no PLACED row is written
SyUpdate(t) ==
  LET r == th[t] l == r.lvl
  IN /\ r.pc = "sy_upd"
     /\ levels' = [levels EXCEPT ![l] =
          IF r.isBuy
          THEN IF UpdateBuyOrderPlacedWhere(@)
               THEN UpdateBuyOrderPlacedSet(@, r.resp) ELSE @
          ELSE IF UpdateSellOrderPlacedWhere(@)
               THEN UpdateSellOrderPlacedSet(@, r.resp) ELSE @]
     /\ th' = [th EXCEPT ![t] = Ret(r)]
     /\ UNCHANGED <<audit, venue, hist>>

SyRevert(t) ==
  LET r == th[t] l == r.lvl st == RevertState(r.isBuy)
  IN /\ r.pc = "sy_revert"
     /\ levels' = [levels EXCEPT ![l] =
          IF UpdateStateWhere(@, st) THEN UpdateStateSet(@, st) ELSE @]
     /\ th' = [th EXCEPT ![t] = Ret(r)]
     /\ UNCHANGED <<audit, venue, hist>>

ActiveLoad(t) ==
  /\ th[t].pc = "active_load"
  /\ th' = [th EXCEPT ![t] =
       Cont([Idle EXCEPT !.pc = "active", !.op = "sync",
                         !.list = GetAllActive, !.i = 1])]
  /\ UNCHANGED <<levels, audit, venue, hist>>

\* ------------------------------------------------------------ environment
VenueFill(o) ==
  /\ venue[o].st = "open"
  /\ venue' = [venue EXCEPT ![o].st = "filled"]
  /\ UNCHANGED <<levels, audit, th, hist>>

VenueCancel(o) ==
  /\ venue[o].st = "open"
  /\ venue' = [venue EXCEPT ![o].st = "cancelled"]
  /\ UNCHANGED <<levels, audit, th, hist>>

\* five minutes pass: every level still in a PLACING_* state is now stuck
Tick ==
  /\ \E l \in DOMAIN levels :
       levels[l].state \in {StatePlacingBuy, StatePlacingSell} /\ ~levels[l].old
  /\ levels' = [l \in DOMAIN levels |->
       IF levels[l].state \in {StatePlacingBuy, StatePlacingSell}
       THEN [levels[l] EXCEPT !.old = TRUE] ELSE levels[l]]
  /\ UNCHANGED <<audit, venue, th, hist>>

\* the engine process dies and restarts: every in-flight task is lost, the
\* database and the venue stay as they are
Crash ==
  /\ \E t \in Threads : th[t].pc # "idle"
  /\ th' = [t \in Threads |-> Idle]
  /\ UNCHANGED <<levels, audit, venue, hist>>

\* ------------------------------------------------------------------- engine
\* amounts a fill notification may carry for order o: the executed quantity,
\* or zero (the handler accepts any decimal)
NotifiedAmounts(o) == {VenueFillAmount(o), 0}

Step(t) ==
  \/ TbStart(t) \/ TbGateway(t) \/ TbRevert(t) \/ TbError(t)
  \/ TbUpdate(t) \/ TbRecord(t)
  \/ TsStart(t) \/ TsGateway(t) \/ TsRevert(t) \/ TsError(t)
  \/ TsUpdate(t) \/ TsRecord(t)
  \/ CheckStatus(t) \/ CheckRevert(t)
  \/ BfGet(t) \/ BfUpdate(t) \/ BfRecord(t) \/ BfReload(t)
  \/ SfGet(t) \/ SfLastBuy(t) \/ SfUpdate(t) \/ SfRecord(t)
  \/ ErUpdate(t) \/ ErRecord(t)
  \/ SyGateway(t) \/ SyUpdate(t) \/ SyRevert(t) \/ ActiveLoad(t)

Next ==
  \/ \E t \in MainThreads :
       \/ \E sym \in Symbols, p \in TriggerPrices :
            CanStart(t) /\ StartTrigger(t, sym, p)
       \/ \E o \in Orders : \E amt \in NotifiedAmounts(o) :
            CanStart(t) /\ StartFill(t, o, amt, VenueFillPrice(o))
       \/ \E o \in Orders, msg \in ErrMsgs : CanStart(t) /\ StartError(t, o, msg)
       \/ CanStart(t) /\ StartSync(t)
       \/ Step(t)
  \/ \E o \in Orders : VenueFill(o) \/ VenueCancel(o)
  \/ Tick
  \/ Crash

Spec == Init /\ [][Next]_vars

\* --------------------------------------------- scenario: racing triggers
\* Up to MaxTriggers price triggers for one symbol, each with a price between
\* the level's buy and sell price, run two at a time from a READY level, or
\* from a HOLDING level whose buy order 1 was filled, while the venue fills or
\* cancels the orders it holds. A trigger whose snapshot shows an active order
\* probes it and handles the fill or reverts the level.
RacePrices ==
  {p \in TriggerPrices : \A l \in Levels : p > BuyPrice(l) /\ p < SellPrice(l)}

FilledBuy(l) ==
  [st |-> "filled", side |-> "buy", lvl |-> l, qty |-> BuyQty(l),
   cached |-> TRUE]
OpenBuy(l) == [FilledBuy(l) EXCEPT !.st = "open"]
BuyFilledRow(l, o) ==
  TxRow(l, "BUY", "FILLED", o, BuyPrice(l) - 1, BuyQty(l),
        BuyQty(l) * (BuyPrice(l) - 1), 0)
PlacementFailed(l, side, msg) == ErrRow(l, side, "order_placement_failed", msg)

InitRace ==
  /\ th = [t \in Threads |-> Idle]
  /\ hist = [NoHist EXCEPT !.mode = "race"]
  /\ errs = {}
  /\ placed = EmptyBag
  /\ \/ /\ levels = [l \in Levels |-> NewLevel(l)]
        /\ txs = <<>>
        /\ venue = [o \in Orders |-> NoVenueOrder]
     \/ /\ levels = [l \in Levels |->
             [NewLevel(l) EXCEPT !.state = StateHolding,
                                 !.filled = Amt(BuyQty(l)), !.buyOrder = 1]]
        /\ txs = <<BuyFilledRow(1, 1)>>
        /\ venue = [o \in Orders |-> IF o = 1 THEN FilledBuy(1) ELSE NoVenueOrder]

\* a price trigger arrives and takes its snapshot of the symbol's levels
RaceTrigger(t) ==
  /\ th[t].pc = "idle"
  /\ hist.started < MaxTriggers
  /\ \A u \in MainThreads : u < t => th[u].pc # "idle"
  /\ \E sym \in Symbols, p \in RacePrices : StartTrigger(t, sym, p)

NextRace ==
  \E t \in MainThreads :
    \/ RaceTrigger(t)
    \/ TbStart(t) \/ TbGateway(t) \/ TbRevert(t) \/ TbError(t)
    \/ TbUpdate(t) \/ TbRecord(t)
    \/ TsStart(t) \/ TsGateway(t) \/ TsRevert(t) \/ TsError(t)
    \/ TsUpdate(t) \/ TsRecord(t)
    \/ CheckStatus(t) \/ CheckRevert(t)
    \/ BfGet(t) \/ BfUpdate(t) \/ BfRecord(t) \/ BfReload(t)
    \/ SfGet(t) \/ SfLastBuy(t) \/ SfUpdate(t) \/ SfRecord(t)
    \/ \E o \in DOMAIN venue : VenueFill(o) \/ VenueCancel(o)

SpecRace == InitRace /\ [][NextRace]_vars

\* ------------------------------ scenario: triggers around an open buy order
\* The same price triggers and venue, from a BUY_ACTIVE level whose buy order
\* 1, placed by an earlier trigger, is open on the venue.
InitPlaced ==
  /\ th = [t \in Threads |-> Idle]
  /\ hist = [NoHist EXCEPT !.mode = "race"]
  /\ errs = {}
  /\ placed = EmptyBag
  /\ txs = <<>>
  /\ levels = [l \in Levels |->
       [NewLevel(l) EXCEPT !.state = StateBuyActive, !.buyOrder = 1]]
  /\ venue = [o \in 1..(MaxOrders + 1) |->
                IF o = 1 THEN OpenBuy(1) ELSE NoVenueOrder]

SpecPlaced == InitPlaced /\ [][NextRace]_vars

\* ------------------------------------- scenario: one notification redelivered
\* The venue has filled the order of a BUY_ACTIVE (resp. SELL_ACTIVE) level;
\* the same fill notification is delivered up to MaxDeliveries times, each
\* delivery after the previous one has returned, while the venue goes on
\* with the orders it holds. The notification is the one the gateway posts
\* (side in the exchange's upper-case text, which the handler answers with
\* 400 "Invalid side" without processing anything) or the one the API
\* description gives (side in lower case).
\* Earlier placement attempts for the level may have failed and left their
\* ERROR rows, and the SELL_ACTIVE level's buy fill may have left no row
\* (its insert failed and was only logged). Process*FillNotification returns
\* nil on every path taken here, so each delivery is answered with the
\* handler's status for the request.
InitSeq ==
  /\ th = [t \in Threads |-> Idle]
  /\ hist = [NoHist EXCEPT !.mode = "seq"]
  /\ placed = EmptyBag
  /\ \/ /\ levels = [l \in Levels |->
             [NewLevel(l) EXCEPT !.state = StateBuyActive, !.buyOrder = 1]]
        /\ txs = <<>>
        /\ errs \in SUBSET {PlacementFailed(1, "BUY", StatusError)}
        /\ venue = [o \in Orders |-> IF o = 1 THEN FilledBuy(1) ELSE NoVenueOrder]
     \/ /\ levels = [l \in Levels |->
             [NewLevel(l) EXCEPT !.state = StateSellActive,
                                 !.filled = Amt(BuyQty(l)),
                                 !.buyOrder = 1, !.sellOrder = 2]]
        /\ txs \in {<<BuyFilledRow(1, 1)>>, <<>>}
        /\ errs \in SUBSET {PlacementFailed(1, "BUY", StatusError),
                            PlacementFailed(1, "SELL", StatusError)}
        /\ venue = [o \in Orders |->
             IF o = 1 THEN FilledBuy(1)
             ELSE IF o = 2 THEN [FilledBuy(1) EXCEPT !.side = "sell"]
             ELSE NoVenueOrder]

ActiveOrder(g) ==
  IF g.state = StateBuyActive THEN g.buyOrder
  ELSE IF g.state = StateSellActive THEN g.sellOrder ELSE NoOrder

Deliver(t) ==
  /\ th[t].pc = "idle"
  /\ hist.delivered < MaxDeliveries
  /\ \E o \in Orders : \E amt \in NotifiedAmounts(o) :
     \E req \in {FillRequest(o), DocumentedFillRequest(o)} :
       LET n == [order |-> o, amt |-> amt, fp |-> VenueFillPrice(o),
                 side |-> req.side]
           a == handleFillNotification(req)
       IN /\ venue[o].st = "filled"
          /\ IF hist.delivered = 0
             THEN \E l \in Levels : ActiveOrder(levels[l]) = o
             ELSE n = hist.note
          /\ th' = [th EXCEPT ![t] =
               IF a.run = "" THEN Idle ELSE FillTask(o, amt, n.fp)]
          /\ hist' = [hist EXCEPT
               !.delivered = @ + 1, !.note = n,
               !.code = a.code,
               !.after1 = IF hist.delivered = 1
                          THEN <<levels, txs, placed, errs>> ELSE @]
  /\ UNCHANGED <<levels, audit, venue>>

NextSeq ==
  \/ Deliver(1)
  \/ BfUpdate(1) \/ BfRecord(1) \/ BfReload(1)
  \/ SfLastBuy(1) \/ SfUpdate(1) \/ SfRecord(1)
  \/ TsStart(1) \/ TsGateway(1) \/ TsRevert(1) \/ TsError(1)
  \/ TsUpdate(1) \/ TsRecord(1)
  \/ \E o \in Orders : VenueFill(o) \/ VenueCancel(o)
  \/ Tick

SpecSeq == InitSeq /\ [][NextSeq]_vars

\* ------------------------------- scenario: an operator disables the level
\* Only price triggers run (up to MaxTriggers of them, two at a time), the
\* venue fills or cancels the orders it holds, and an operator may at any
\* moment set enabled = false on the level by a direct edit of the table.
\* The level starts READY, or BUY_ACTIVE with its buy order 1 open.
InitDisable ==
  /\ th = [t \in Threads |-> Idle]
  /\ hist = [NoHist EXCEPT !.mode = "disable"]
  /\ txs = <<>>
  /\ placed = EmptyBag
  /\ errs = {}
  /\ \/ /\ levels = [l \in Levels |-> NewLevel(l)]
        /\ venue = [o \in Orders |-> NoVenueOrder]
     \/ /\ levels = [l \in Levels |->
             [NewLevel(l) EXCEPT !.state = StateBuyActive, !.buyOrder = 1]]
        /\ venue = [o \in Orders |-> IF o = 1 THEN OpenBuy(1) ELSE NoVenueOrder]

\* UPDATE grid_levels SET enabled = false WHERE id = ?  (by the operator)
Disable(l) ==
  /\ levels[l].enabled
  /\ levels' = [levels EXCEPT ![l].enabled = FALSE]
  /\ UNCHANGED <<audit, venue, th, hist>>

DisableTrigger(t) ==
  /\ th[t].pc = "idle"
  /\ hist.started < MaxTriggers
  /\ \A u \in Threads : u < t => th[u].pc # "idle"
  /\ \E sym \in Symbols, p \in RacePrices : StartTrigger(t, sym, p)

NextDisable ==
  \/ \E t \in MainThreads :
       \/ DisableTrigger(t)
       \/ TbStart(t) \/ TbGateway(t) \/ TbRevert(t) \/ TbError(t)
       \/ TbUpdate(t) \/ TbRecord(t)
       \/ TsStart(t) \/ TsGateway(t) \/ TsRevert(t) \/ TsError(t)
       \/ TsUpdate(t) \/ TsRecord(t)
       \/ CheckStatus(t) \/ CheckRevert(t)
       \/ BfGet(t) \/ BfUpdate(t) \/ BfRecord(t) \/ BfReload(t)
       \/ SfGet(t) \/ SfLastBuy(t) \/ SfUpdate(t) \/ SfRecord(t)
  \/ \E o \in Orders : VenueFill(o) \/ VenueCancel(o)
  \/ \E l \in Levels : Disable(l)

SpecDisable == InitDisable /\ [][NextDisable]_vars

\* ------------------------------------ scenario: the sweeper keeps running
\* A level was left in PLACING_BUY or PLACING_SELL by a crash. No request
\* arrives; the sync job runs again and again, time passes, the gateway
\* answers, and the venue fills or cancels the orders it holds.
\* The level is in its first cycle (no order id; the crash came before or
\* after the gateway accepted order 1), or in a later one (its earlier buy
\* order 1 was filled and sold with order 2, or was cancelled; buy_order_id
\* still names it).
SellFilledRow(l, o, rel) ==
  TxRow(l, "SELL", "FILLED", o, SellPrice(l) + 1, BuyQty(l),
        BuyQty(l) * (SellPrice(l) + 1), rel)
FilledSell(l) == [FilledBuy(l) EXCEPT !.side = "sell"]

InitLive ==
  /\ th = [t \in Threads |-> Idle]
  /\ hist = [NoHist EXCEPT !.mode = "live"]
  /\ placed = EmptyBag
  /\ errs = {}
  /\ \/ /\ levels = [l \in Levels |->
             [NewLevel(l) EXCEPT !.state = StatePlacingBuy]]
        /\ txs = <<>>
        /\ venue \in {[o \in Orders |-> NoVenueOrder],
                      [o \in Orders |-> IF o = 1 THEN OpenBuy(1) ELSE NoVenueOrder]}
     \/ /\ levels = [l \in Levels |->
             [NewLevel(l) EXCEPT !.state = StatePlacingBuy, !.buyOrder = 1]]
        /\ \/ /\ txs = <<BuyFilledRow(1, 1), SellFilledRow(1, 2, 1)>>
              /\ venue = [o \in Orders |->
                   IF o = 1 THEN FilledBuy(1)
                   ELSE IF o = 2 THEN FilledSell(1) ELSE NoVenueOrder]
           \/ /\ txs = <<>>
              /\ venue = [o \in Orders |->
                   IF o = 1 THEN [OpenBuy(1) EXCEPT !.st = "cancelled"]
                   ELSE NoVenueOrder]
     \/ /\ levels = [l \in Levels |->
             [NewLevel(l) EXCEPT !.state = StatePlacingSell,
                                 !.filled = Amt(BuyQty(l)), !.buyOrder = 1]]
        /\ txs = <<BuyFilledRow(1, 1)>>
        /\ venue = [o \in Orders |-> IF o = 1 THEN FilledBuy(1) ELSE NoVenueOrder]

\* the cron job starts SyncOrders; one run at a time
LiveSync ==
  /\ th[1].pc = "idle"
  /\ th' = [th EXCEPT ![1] =
       Cont([Idle EXCEPT !.pc = "stuck", !.op = "sync",
                         !.list = GetStuckInPlacingState, !.i = 1])]
  /\ UNCHANGED <<levels, audit, venue, hist>>

LiveStep ==
  \/ SyGateway(1) \/ SyUpdate(1) \/ SyRevert(1) \/ ActiveLoad(1)
  \/ CheckStatus(1) \/ CheckRevert(1)
  \/ BfGet(1) \/ BfUpdate(1) \/ BfRecord(1) \/ BfReload(1)
  \/ SfGet(1) \/ SfLastBuy(1) \/ SfUpdate(1) \/ SfRecord(1)
  \/ TsStart(1) \/ TsGateway(1) \/ TsRevert(1) \/ TsError(1)
  \/ TsUpdate(1) \/ TsRecord(1)

\* GetOrderStatus returns the order's status (no transport error)
Answered == CheckStatus(1) /\ venue[th[1].order].st \in {"filled", "cancelled"}
              /\ th'[1].pc \in {"bf_get", "sf_get", "chk_revert"}

NextLive ==
  \/ LiveSync
  \/ LiveStep
  \/ \E o \in Orders : VenueFill(o) \/ VenueCancel(o)
  \/ Tick

\* the cron job keeps firing, a started run goes on, time passes, and a
\* gateway that is asked again and again answers
FairLive ==
  /\ WF_vars(LiveSync) /\ WF_vars(LiveStep) /\ WF_vars(Tick)
  /\ SF_vars(Answered)

SpecLive == InitLive /\ [][NextLive]_vars /\ FairLive

\* ------------------------------------ scenario: the trigger predicates
\* CanPlaceBuy and CanPlaceSell applied to every kind of level row (any
\* state, enabled or not, filled amount absent, zero or positive) at prices
\* below, at, between and above the level's buy and sell price.
EvalPrices == 3..7
EvalAmounts == {NullAmt, Amt(0), Amt(2)}

InitEval ==
  /\ levels \in [Levels -> {[NewLevel(l) EXCEPT !.state = st, !.enabled = en,
                                               !.filled = f] :
                              l \in Levels, st \in GridState, en \in BOOLEAN,
                              f \in EvalAmounts}]
  /\ \A l \in Levels : levels[l].id = l
  /\ txs = <<>>
  /\ placed = EmptyBag
  /\ errs = {}
  /\ venue = [o \in Orders |-> NoVenueOrder]
  /\ th = [t \in Threads |-> Idle]
  /\ hist = [NoHist EXCEPT !.mode = "eval"]

\* the two calls ProcessPriceTrigger makes on a level of its snapshot
Evaluate(l, p) ==
  /\ hist' = [hist EXCEPT !.eval = [done |-> TRUE, price |-> p,
                                    buy |-> CanPlaceBuy(levels[l], p),
                                    sell |-> CanPlaceSell(levels[l], p)]]
  /\ UNCHANGED <<levels, audit, venue, th>>

NextEval == \E l \in Levels, p \in EvalPrices : Evaluate(l, p)

SpecEval == InitEval /\ [][NextEval]_vars

\* ------------------- scenario: one fill, by the webhook and by the sweeper
\* The venue has filled the order of a BUY_ACTIVE (resp. SELL_ACTIVE) level.
\* The fill reaches the engine by one of three paths: the fill notification
\* ("webhook"), the order check of ProcessPriceTrigger / SyncOrders that
\* hands the reported fill to the notification handlers ("probe"), and the
\* order check that applies the fill itself ("sweeper"). One path runs to
\* its end, the store is put back to the start, and a second path runs from
\* there with the same amount and price.
InitPaths ==
  /\ th = [t \in Threads |-> Idle]
  /\ placed = EmptyBag
  /\ errs = {}
  /\ \/ /\ levels = [l \in Levels |->
             [NewLevel(l) EXCEPT !.state = StateBuyActive, !.buyOrder = 1]]
        /\ txs = <<>>
        /\ venue = [o \in Orders |-> IF o = 1 THEN FilledBuy(1) ELSE NoVenueOrder]
     \/ /\ levels = [l \in Levels |->
             [NewLevel(l) EXCEPT !.state = StateSellActive,
                                 !.filled = Amt(BuyQty(l)),
                                 !.buyOrder = 1, !.sellOrder = 2]]
        /\ txs = <<BuyFilledRow(1, 1)>>
        /\ venue = [o \in Orders |->
             IF o = 1 THEN FilledBuy(1)
             ELSE IF o = 2 THEN FilledSell(1) ELSE NoVenueOrder]
  /\ hist = [NoHist EXCEPT !.mode = "paths", !.start = <<levels, txs, venue>>]

PathFree(p) ==
  /\ th[1].pc = "idle" /\ hist.path = ""
  /\ hist.runs = 0 \/ (hist.runs = 1 /\ hist.first[1] # p)

\* POST /order-fill-notification with the amount and price the gateway reports
PathWebhook ==
  /\ PathFree("webhook")
  /\ \E l \in Levels :
       LET o == ActiveOrder(levels[l])
       IN th' = [th EXCEPT ![1] =
                   FillTask(o, VenueFillAmount(o), VenueFillPrice(o))]
  /\ hist' = [hist EXCEPT !.path = "webhook"]
  /\ UNCHANGED <<levels, audit, venue>>

\* SyncOrders, second loop: GetAllActive, then the status of each order
PathProbe ==
  /\ PathFree("probe")
  /\ th' = [th EXCEPT ![1] =
       Cont([Idle EXCEPT !.pc = "active", !.op = "sync",
                         !.list = GetAllActive, !.i = 1])]
  /\ hist' = [hist EXCEPT !.path = "probe"]
  /\ UNCHANGED <<levels, audit, venue>>

\* GetOrderStatus reports the order as filled
ReportedFilled == CheckStatus(1) /\ th'[1].pc \in {"bf_get", "sf_get"}

\* SyncOrders, second loop, with the checkAndUpdateOrderStatus that applies
\* a reported fill itself
PathSweeper ==
  /\ PathFree("sweeper")
  /\ LET r == Cont([Idle EXCEPT !.pc = "active", !.op = "sync",
                                !.list = GetAllActive, !.i = 1])
     IN th' = [th EXCEPT ![1] =
                 IF r.pc = "chk" THEN [r EXCEPT !.pc = "sw_chk"] ELSE r]
  /\ hist' = [hist EXCEPT !.path = "sweeper"]
  /\ UNCHANGED <<levels, audit, venue>>

\* GetOrderStatus answered "filled" (with the filled amount)
SweepStatus(t) ==
  LET r == th[t]
  IN /\ r.pc = "sw_chk"
     /\ venue[r.order].st = "filled"
     /\ th' = [th EXCEPT ![t] = [r EXCEPT !.pc = "sw_upd",
                                          !.amt = VenueFillAmount(r.order)]]
     /\ UNCHANGED <<levels, audit, venue, hist>>

\* ProcessBuyFill of the repository this order check runs on: SET state =
\* HOLDING, filled_amount = $2, buy_order_id = NULL
ProcessBuyFillClearing(row, amt) ==
  [ProcessBuyFillSet(row, amt) EXCEPT !.buyOrder = NoOrder]

\* case "filled": repo.ProcessBuyFill(level.ID, amount) or
\* repo.ProcessSellFill(level.ID), and nothing else
SweepFilled(t) ==
  LET r == th[t] l == r.lvl
  IN /\ r.pc = "sw_upd"
     /\ levels' = [levels EXCEPT ![l] =
          IF r.isBuy
          THEN IF ProcessBuyFillWhere(@) THEN ProcessBuyFillClearing(@, r.amt) ELSE @
          ELSE IF ProcessSellFillWhere(@) THEN ProcessSellFillSet(@) ELSE @]
     /\ th' = [th EXCEPT ![t] = Ret(r)]
     /\ UNCHANGED <<audit, venue, hist>>

\* what a path left behind: each level's filled amount and buy order id, and
\* the FILLED rows (the state and the sell order id depend on how the sell
\* placement that follows a buy fill went)
PathResult ==
  <<[l \in Levels |-> <<levels[l].filled, levels[l].buyOrder>>], txs>>

\* the first path has returned: keep its result and put the store and the
\* venue back to the start
Rewind ==
  /\ th[1].pc = "idle" /\ hist.path # "" /\ hist.runs = 0
  /\ levels' = hist.start[1]
  /\ txs' = hist.start[2]
  /\ venue' = hist.start[3]
  /\ placed' = EmptyBag
  /\ errs' = {}
  /\ hist' = [hist EXCEPT !.runs = 1, !.path = "",
                          !.first = <<hist.path, PathResult>>]
  /\ UNCHANGED th

NextPaths ==
  \/ PathWebhook \/ PathProbe \/ PathSweeper
  \/ ReportedFilled
  \/ SweepStatus(1) \/ SweepFilled(1)
  \/ BfGet(1) \/ BfUpdate(1) \/ BfRecord(1) \/ BfReload(1)
  \/ SfGet(1) \/ SfLastBuy(1) \/ SfUpdate(1) \/ SfRecord(1)
  \/ TsStart(1) \/ TsGateway(1) \/ TsRevert(1) \/ TsError(1)
  \/ TsUpdate(1) \/ TsRecord(1)
  \/ Rewind

SpecPaths == InitPaths /\ [][NextPaths]_vars

\* ------------------------------ scenario: the gateway's PlaceOrder alone
\* NumRacers callers send the same placement (the buy order of level 1) to
\* the gateway, all within the cache's expiry time; the calls may overlap.
\* Each call is split at its exchange requests: the cache lookup, the status
\* request for a cached order, the order request, and the cache store.
\* GetOpenOrders calls for one symbol or for all run beside them, each split
\* at its exchange request.
InitGateway ==
  /\ levels = [l \in Levels |-> NewLevel(l)]
  /\ txs = <<>>
  /\ placed = EmptyBag
  /\ errs = {}
  /\ venue = [o \in Orders |-> NoVenueOrder]
  /\ th = [t \in Threads |-> Idle]
  /\ hist = [NoHist EXCEPT !.mode = "gateway"]

Racers == 1..NumRacers
GatewayKey == [side |-> "buy", lvl |-> 1, qty |-> BuyQty(1)]

\* getFromCache(key), within the expiry time
GetFromCache(key) ==
  {o \in DOMAIN venue : venue[o].st # "none" /\ venue[o].cached
                  /\ SameKey(venue[o], key)}

\* the call returns order id o to its caller
Reply(h, o) == [h EXCEPT !.ids = @ \cup {o}]

\* PlaceOrder up to its first request: cache hit -> GetOrder, miss -> POST
GwCall(t) ==
  /\ th[t].pc = "idle"
  /\ hist.started = t - 1
  /\ LET H == GetFromCache(GatewayKey)
     IN th' = [th EXCEPT ![t] =
          IF H = {} THEN [Idle EXCEPT !.pc = "gw_post", !.op = "place"]
          ELSE [Idle EXCEPT !.pc = "gw_status", !.op = "place",
                            !.order = FirstOf(H)]]
  /\ hist' = [hist EXCEPT !.started = @ + 1]
  /\ UNCHANGED <<levels, audit, venue>>

\* GetOrder for the cached order: reuse it if the request succeeded and the
\* order is NEW or PARTIALLY_FILLED, else go on to place a new order
GwStatus(t) ==
  LET r == th[t]
  IN /\ r.pc = "gw_status"
     /\ \E ok \in BOOLEAN :
          IF ok /\ venue[r.order].st = "open"
          THEN /\ th' = [th EXCEPT ![t] = Idle]
               /\ hist' = Reply(hist, r.order)
          ELSE /\ th' = [th EXCEPT ![t].pc = "gw_post", ![t].order = NoOrder]
               /\ UNCHANGED hist
     /\ UNCHANGED <<levels, audit, venue>>

\* POST /api/v3/order: an error is returned to the caller, before the
\* exchange took the order or after it (the answer timed out or could not
\* be read or decoded); else the exchange has the new order
GwPost(t) ==
  LET r == th[t]
  IN /\ r.pc = "gw_post"
     /\ \/ /\ th' = [th EXCEPT ![t] = Idle]
           /\ UNCHANGED venue
        \/ /\ NextOrderId \in DOMAIN venue
           /\ venue' = [venue EXCEPT ![NextOrderId] =
                GatewayKey @@ [st |-> "open", cached |-> FALSE]]
           /\ \/ th' = [th EXCEPT ![t].pc = "gw_store", ![t].resp = NextOrderId]
              \/ th' = [th EXCEPT ![t] = Idle]
     /\ UNCHANGED <<levels, audit, hist>>

\* storeInCache(cacheKey, &order) and the return of the new order
GwStore(t) ==
  LET r == th[t]
  IN /\ r.pc = "gw_store"
     /\ venue' = StoreInCache(venue, r.resp)
     /\ th' = [th EXCEPT ![t] = Idle]
     /\ hist' = Reply(hist, r.resp)
     /\ UNCHANGED <<levels, audit>>

\* GetOpenOrders(symbol) up to the exchange's answer: the task holds the
\* orders of the answer that updateCache will keep
GwOpenOrders(t) ==
  /\ th[t].pc = "idle"
  /\ \E sym \in OpenOrderSymbols : \E keep \in OpenOrdersKept(venue, sym) :
       th' = [th EXCEPT ![t] =
                [Idle EXCEPT !.pc = "gw_open", !.op = "open",
                             !.list = AscList(keep)]]
  /\ UNCHANGED <<levels, audit, venue, hist>>

\* updateCache(orders) with the answer read earlier, and the return
GwUpdateCache(t) ==
  LET r == th[t]
  IN /\ r.pc = "gw_open"
     /\ venue' = UpdateCache(venue, {r.list[k] : k \in 1..Len(r.list)})
     /\ th' = [th EXCEPT ![t] = Idle]
     /\ UNCHANGED <<levels, audit, hist>>

NextGateway ==
  \/ \E t \in Racers : GwCall(t) \/ GwStatus(t) \/ GwPost(t) \/ GwStore(t)
  \/ \E t \in Racers : GwOpenOrders(t) \/ GwUpdateCache(t)
  \/ \E o \in Orders : VenueFill(o) \/ VenueCancel(o)

SpecGateway == InitGateway /\ [][NextGateway]_vars

\* ------------------------------------------- scenario: the engine, briefly
\* The engine under arbitrary requests as in Spec, for one invocation less,
\* from a READY level or from a BUY_ACTIVE level whose order 1 is open at
\* the venue.
InitShort ==
  /\ th = [t \in Threads |-> Idle]
  /\ hist = [NoHist EXCEPT !.mode = "short"]
  /\ txs = <<>>
  /\ placed = EmptyBag
  /\ errs = {}
  /\ \/ /\ levels = [l \in Levels |-> NewLevel(l)]
        /\ venue = [o \in Orders |-> NoVenueOrder]
     \/ /\ levels = [l \in Levels |->
             [NewLevel(l) EXCEPT !.state = StateBuyActive, !.buyOrder = 1]]
        /\ venue = [o \in Orders |-> IF o = 1 THEN OpenBuy(1) ELSE NoVenueOrder]

SpecShort == InitShort /\ [][Next]_vars

\* --------------------------------------------- scenario: grid creation
\* The table grid_levels of one symbol, as the list of its rows in id order;
\* besides the columns of NewLevel a row carries its buy and sell price. A
\* grid is initialized with one set of parameters (min_price, max_price,
\* grid_step; the buy amount is the same for all) through POST /grids
\* (CreateGrid) and through -init-grid (InitializeGrid), again and again,
\* while the engine advances the levels that exist.
GridParams ==
  {<<mn, mx, st>> : mn \in {0, 2, 3}, mx \in {2, 6, 7}, st \in {0, 2, 3}}

\* handleCreateGrid: "Validate input"
ValidGrid(p) == p[1] > 0 /\ p[2] > 0 /\ p[1] < p[2] /\ p[3] > 0

GridRow(id, buy, sell) == NewLevel(id) @@ [buy |-> buy, sell |-> sell]
HasKey(tbl, buy, sell) ==
  \E k \in 1..Len(tbl) : tbl[k].buy = buy /\ tbl[k].sell = sell

\* CONSTRAINT check_prices: the INSERT fails with an error
CreateFails(buy, sell) == ~(sell > buy)

\* the table with its AUTOINCREMENT counter (sqlite_sequence): seq is the
\* largest id handed out so far
GridDb(tbl, seq) == [tbl |-> tbl, seq |-> seq]

\* (variant: the INSERT without ON CONFLICT DO NOTHING and without the
\* unique constraint)
CreateAlways(tbl, seq, buy, sell) ==
  IF CreateFails(buy, sell) THEN GridDb(tbl, seq)
  ELSE GridDb(Append(tbl, GridRow(seq + 1, buy, sell)), seq + 1)
\* INSERT ... ON CONFLICT (symbol, buy_price, sell_price) DO NOTHING: the
\* statement that fails the CHECK is rolled back, the one that is skipped
\* on the conflict has taken its id from the counter all the same
Create(tbl, seq, buy, sell) ==
  IF CreateFails(buy, sell) THEN GridDb(tbl, seq)
  ELSE IF HasKey(tbl, buy, sell) THEN GridDb(tbl, seq + 1)
  ELSE GridDb(Append(tbl, GridRow(seq + 1, buy, sell)), seq + 1)

\* numLevels := priceRange.Div(gridStep).IntPart()
NumLevels(p) == (p[2] - p[1]) \div p[3]

\* CreateGrid: the loop from level i up to its next INSERT; existing is the
\* snapshot read by GetBySymbol before the loop. The index of the next level
\* that the snapshot lacks, or n when the loop ends
RECURSIVE CreateGridNext(_, _, _, _)
CreateGridNext(i, n, p, existing) ==
  LET buyPrice == p[1] + p[3] * i
      sellPrice == buyPrice + p[3]
  IN IF i >= n \/ sellPrice > p[2] THEN n
     ELSE IF HasKey(existing, buyPrice, sellPrice)
     THEN CreateGridNext(i + 1, n, p, existing)
     ELSE i

\* InitializeGrid: one pass of the loop at currentPrice; the last level's
\* sell price is cut to max_price. The call is done when the loop condition
\* fails or when Create returns an error
InitializeGridPass(db, currentPrice, p) ==
  LET sellPrice == IF currentPrice + p[3] > p[2] THEN p[2]
                   ELSE currentPrice + p[3]
  IN IF ~(currentPrice < p[2])
     THEN [done |-> TRUE, ok |-> TRUE, db |-> db, price |-> currentPrice]
     ELSE IF CreateFails(currentPrice, sellPrice)
     THEN [done |-> TRUE, ok |-> FALSE, db |-> db, price |-> currentPrice]
     ELSE [done |-> ~(currentPrice + p[3] < p[2]), ok |-> TRUE,
           db |-> Create(db.tbl, db.seq, currentPrice, sellPrice),
           price |-> currentPrice + p[3]]

\* The handlers of POST /grids run as tasks 1 and 2, each in its own
\* goroutine; -init-grid runs as a process of its own (the other tasks).
\* Neither uses a transaction: every statement is a step, and the statements
\* of other callers and of the engine come in between.
InitGrid ==
  /\ levels = <<>>
  /\ txs = <<>>
  /\ placed = EmptyBag
  /\ errs = {}
  /\ venue = [o \in Orders |-> NoVenueOrder]
  /\ th = [t \in Threads |-> Idle]
  /\ \E p \in GridParams :
       hist = [NoHist EXCEPT !.mode = "grid", !.grid.params = p]

\* task t begins a call of an entry point: whether the same entry point had
\* completed before
GridBegun(h, t, entry) ==
  [h EXCEPT !.started = @ + 1, !.grid.by = t,
            !.grid.rerun = IF entry \in h.grid.ran THEN @ \cup {t} ELSE @ \ {t}]

\* the call of task t returns: its HTTP status (0 for the command line)
GridCalled(h, t, entry, ok, code) ==
  [h EXCEPT !.grid.n = @ + 1, !.grid.last = entry, !.grid.code = code,
            !.grid.by = t,
            !.grid.ran = IF ok THEN @ \cup {entry} ELSE @,
            !.grid.again = @ \/ (ok /\ t \in h.grid.rerun)]

\* POST /grids: handleCreateGrid validates, CreateGrid counts the levels and
\* reads the existing ones (GetBySymbol)
PostGrid(t) ==
  LET p == hist.grid.params
      h == GridBegun(hist, t, "post")
  IN /\ th[t].pc = "idle"
     /\ hist.started < MaxOps
     /\ IF ~ValidGrid(p)
        THEN th' = th /\ hist' = GridCalled(h, t, "post", FALSE, 400)
        ELSE IF NumLevels(p) <= 0
        THEN th' = th /\ hist' = GridCalled(h, t, "post", FALSE, 500)
        ELSE LET first == CreateGridNext(0, NumLevels(p), p, levels)
             IN IF first >= NumLevels(p)
                THEN th' = th /\ hist' = GridCalled(h, t, "post", TRUE, 200)
                ELSE /\ th' = [th EXCEPT ![t] =
                          [Idle EXCEPT !.pc = "cg_insert", !.op = "post",
                                       !.list = levels, !.i = first]]
                     /\ hist' = h
     /\ UNCHANGED <<levels, audit, venue>>

\* CreateGrid: s.repo.Create for level i, then on to the next level that the
\* snapshot lacks, or the return
CreateGridInsert(t) ==
  LET p == hist.grid.params
      buyPrice == p[1] + p[3] * th[t].i
      db == Create(levels, hist.grid.seq, buyPrice, buyPrice + p[3])
      next == CreateGridNext(th[t].i + 1, NumLevels(p), p, th[t].list)
      h == [hist EXCEPT !.grid.seq = db.seq, !.grid.by = t]
  IN /\ th[t].pc = "cg_insert"
     /\ levels' = db.tbl
     /\ IF next >= NumLevels(p)
        THEN /\ th' = [th EXCEPT ![t] = Idle]
             /\ hist' = GridCalled(h, t, "post", TRUE, 200)
        ELSE /\ th' = [th EXCEPT ![t].i = next]
             /\ hist' = h
     /\ UNCHANGED <<audit, venue>>

\* one pass of InitializeGrid's loop by task t, from currentPrice
InitializeGridStep(t, h, currentPrice) ==
  LET p == hist.grid.params
      res == InitializeGridPass(GridDb(levels, hist.grid.seq), currentPrice, p)
      g == [h EXCEPT !.grid.seq = res.db.seq, !.grid.by = t]
  IN /\ levels' = res.db.tbl
     /\ IF res.done
        THEN /\ th' = [th EXCEPT ![t] = Idle]
             /\ hist' = GridCalled(g, t, "init", res.ok, 0)
        ELSE /\ th' = [th EXCEPT ![t] =
                  [Idle EXCEPT !.pc = "ig_insert", !.op = "init",
                               !.price = res.price]]
             /\ hist' = g
     /\ UNCHANGED <<audit, venue>>

\* grid-trading -init-grid with parameters that parse as decimals: the
\* process starts and makes the first pass of the loop
RunInitGrid(t) ==
  /\ th[t].pc = "idle"
  /\ hist.started < MaxOps
  /\ InitializeGridStep(t, GridBegun(hist, t, "init"), hist.grid.params[1])

\* InitializeGrid: the next pass of the loop
InitializeGridInsert(t) ==
  /\ th[t].pc = "ig_insert"
  /\ InitializeGridStep(t, hist, th[t].price)

\* the engine advances an existing level by one of its guarded updates
GridTrade(k) ==
  /\ hist.started < MaxOps
  /\ k \in 1..Len(levels)
  /\ \/ /\ TryStartBuyOrderWhere(levels[k])
        /\ levels' = [levels EXCEPT ![k] = TryStartBuyOrderSet(@)]
     \/ /\ UpdateBuyOrderPlacedWhere(levels[k])
        /\ levels' = [levels EXCEPT ![k] = UpdateBuyOrderPlacedSet(@, 1)]
  /\ hist' = [hist EXCEPT !.started = @ + 1, !.grid.by = 0]
  /\ UNCHANGED <<audit, venue, th>>

NextGrid ==
  \/ \E t \in MainThreads : PostGrid(t) \/ CreateGridInsert(t)
  \/ \E t \in Threads \ MainThreads : RunInitGrid(t) \/ InitializeGridInsert(t)
  \/ \E k \in 1..2 : GridTrade(k)

SpecGrid == InitGrid /\ [][NextGrid]_vars

\* ------------------------------------ scenario: notification requests
\* The venue-facing endpoints receive one request after another for a level
\* with an order on the venue: bodies that decode or not, status "filled" or
\* "partial", side "buy", "sell" or something else. The SELL_ACTIVE level has
\* its BUY/FILLED row, or lacks it (the insert failed when the buy was filled).
Requests ==
  [kind : {"fill", "error"}, wellFormed : BOOLEAN,
   status : {"filled", "partial"}, side : {"buy", "sell", "hold"},
   order : Orders]

\* ProcessErrorNotification's first branch: "invalid side" is returned as an
\* error for a side that is neither buy nor sell
ProcessErrorNotificationFails(side) == side \notin {"buy", "sell"}

\* handleErrorNotification: 400 for a body that does not decode, 500 if
\* ProcessErrorNotification returns an error, else 200
handleErrorNotification(req) ==
  IF ~req.wellFormed THEN [code |-> 400, run |-> ""]
  ELSE IF ProcessErrorNotificationFails(req.side) THEN [code |-> 500, run |-> ""]
  ELSE [code |-> 200, run |-> req.side]

RequestTask(req, run) ==
  IF run = "" THEN Idle
  ELSE IF req.kind = "fill"
  THEN LET r == [Idle EXCEPT !.op = "fill", !.order = req.order,
                             !.amt = VenueFillAmount(req.order),
                             !.fprice = VenueFillPrice(req.order)]
       IN IF run = "buy" THEN BuyFillLookup(r) ELSE SellFillLookup(r)
  ELSE LET M == IF run = "buy" THEN MatchBuy(req.order) ELSE MatchSell(req.order)
       IN IF M = {} THEN Idle
          ELSE [Idle EXCEPT !.pc = "er_upd", !.op = "error", !.order = req.order,
                            !.isBuy = (run = "buy"), !.lvl = FirstOf(M),
                            !.msg = "insufficient_funds"]

InitRequests ==
  /\ th = [t \in Threads |-> Idle]
  /\ placed = EmptyBag
  /\ errs = {}
  /\ \/ /\ levels = [l \in Levels |->
             [NewLevel(l) EXCEPT !.state = StateBuyActive, !.buyOrder = 1]]
        /\ txs = <<>>
        /\ venue = [o \in Orders |-> IF o = 1 THEN FilledBuy(1) ELSE NoVenueOrder]
     \/ /\ levels = [l \in Levels |->
             [NewLevel(l) EXCEPT !.state = StateSellActive,
                                 !.filled = Amt(BuyQty(l)),
                                 !.buyOrder = 1, !.sellOrder = 2]]
        /\ txs \in {<<BuyFilledRow(1, 1)>>, <<>>}
        /\ venue = [o \in Orders |->
             IF o = 1 THEN FilledBuy(1)
             ELSE IF o = 2 THEN FilledSell(1) ELSE NoVenueOrder]
  /\ hist = [NoHist EXCEPT !.mode = "requests", !.start = <<levels, txs, errs>>]

\* one request arrives while no other is being served
Request ==
  /\ th[1].pc = "idle"
  /\ hist.started < MaxDeliveries
  /\ \E req \in Requests :
       LET a == IF req.kind = "fill" THEN handleFillNotification(req)
                ELSE handleErrorNotification(req)
       IN /\ venue[req.order].st = "filled"
          /\ th' = [th EXCEPT ![1] = RequestTask(req, a.run)]
          /\ hist' = [hist EXCEPT !.started = @ + 1, !.req = req,
                                  !.code = a.code,
                                  !.start = <<levels, txs, errs>>]
  /\ UNCHANGED <<levels, audit, venue>>

NextRequests ==
  \/ Request
  \/ BfUpdate(1) \/ BfRecord(1) \/ BfReload(1)
  \/ SfLastBuy(1) \/ SfUpdate(1) \/ SfRecord(1)
  \/ TsStart(1) \/ TsGateway(1) \/ TsRevert(1) \/ TsError(1)
  \/ TsUpdate(1) \/ TsRecord(1)
  \/ ErUpdate(1) \/ ErRecord(1)
  \/ \E o \in Orders : VenueFill(o)

SpecRequests == InitRequests /\ [][NextRequests]_vars

\* ------------------------------------------- scenario: the price monitor
\* The monitor receives ticks for one symbol while its clock advances; each
\* POST to the engine succeeds or fails and may take one unit of time. The
\* monitor's fields are kept in th: has (the symbol is in the lastTrigger and
\* lastPrice maps, which are written together), lastTrigger, lastPrice.
TickPrices == {100, 104, 105}

Abs(x) == IF x < 0 THEN 0 - x ELSE x

\* "too soon": time.Since(lastTime) < TriggerIntervalMs
\* (variant: one unit short)
TooSoonOneShort(pm, now) ==
  pm.has /\ now - pm.lastTrigger < TriggerInterval - 1
TooSoon(pm, now) == pm.has /\ now - pm.lastTrigger < TriggerInterval

\* "insignificant change": |price - lastPrice| / lastPrice * 100 is less than
\* MinPriceChangePct (the quotient has 16 decimal places, which cannot turn
\* the comparison for the prices used here)
Insignificant(pm, price) ==
  pm.has /\ Abs(price - pm.lastPrice) * 100 < MinChangePct * pm.lastPrice

\* handlePriceUpdate at time now; the POST, if made, returns sendOk at time
\* after, and only then are lastTrigger and lastPrice written
\* (variant: lastTrigger and lastPrice are written when the POST is made)
handlePriceUpdateEager(pm, now, price, sendOk, after) ==
  IF TooSoon(pm, now) THEN [pm |-> pm, out |-> "too_soon"]
  ELSE IF Insignificant(pm, price) THEN [pm |-> pm, out |-> "insignificant"]
  ELSE [pm |-> [has |-> TRUE, lastTrigger |-> after, lastPrice |-> price],
        out |-> IF sendOk THEN "sent" ELSE "failed"]
handlePriceUpdate(pm, now, price, sendOk, after) ==
  IF TooSoon(pm, now) THEN [pm |-> pm, out |-> "too_soon"]
  ELSE IF Insignificant(pm, price) THEN [pm |-> pm, out |-> "insignificant"]
  ELSE IF ~sendOk THEN [pm |-> pm, out |-> "failed"]
  ELSE [pm |-> [has |-> TRUE, lastTrigger |-> after, lastPrice |-> price],
        out |-> "sent"]

InitMonitor ==
  /\ th = [has |-> FALSE, lastTrigger |-> 0, lastPrice |-> 0]
  /\ levels = [l \in Levels |-> NewLevel(l)]
  /\ txs = <<>>
  /\ placed = EmptyBag
  /\ errs = {}
  /\ venue = [o \in Orders |-> NoVenueOrder]
  /\ hist = [NoHist EXCEPT !.mode = "monitor"]

Posted(out) == out \in {"sent", "failed"}

\* one tick of the polling loop, which polls at most once per unit of time
MonitorTick ==
  /\ ~hist.mon.ticked
  /\ \E price \in TickPrices, sendOk \in BOOLEAN, d \in {0, 1} :
       LET r == handlePriceUpdate(th, hist.now, price, sendOk, hist.now + d)
           t == [at |-> hist.now, price |-> price, ok |-> r.out = "sent"]
       IN /\ hist.now + d <= MaxTime
          /\ th' = r.pm
          /\ hist' = [hist EXCEPT
               !.now = IF Posted(r.out) THEN hist.now + d ELSE @,
               !.mon = IF Posted(r.out)
                       THEN [n |-> @.n + 1, out |-> r.out, ticked |-> d = 0,
                             cur |-> t,
                             okPrev |-> IF t.ok THEN @.okCur ELSE @.okPrev,
                             okCur |-> IF t.ok THEN t ELSE @.okCur]
                       ELSE [@ EXCEPT !.out = r.out, !.ticked = TRUE]]
  /\ UNCHANGED <<levels, audit, venue>>

\* time passes
Advance ==
  /\ hist.now < MaxTime
  /\ hist' = [hist EXCEPT !.now = @ + 1, !.mon.ticked = FALSE]
  /\ UNCHANGED <<levels, audit, venue, th>>

NextMonitor == MonitorTick \/ Advance

SpecMonitor == InitMonitor /\ [][NextMonitor]_vars

\* ------------------------------ scenario: one trigger, several levels
\* Levels 1 and 2 belong to the triggered symbol, level 3 to another one;
\* each is READY, or HOLDING with a filled amount. One price trigger for the
\* first symbol runs to its end; every gateway placement may fail.
MultiPrices == {5, 7}

\* a level after ProcessBuyFill: HOLDING with the filled amount, buy_order_id
\* still the id of the filled buy order o
HoldingLevel(l, o) ==
  [NewLevel(l) EXCEPT !.state = StateHolding, !.filled = Amt(BuyQty(l)),
                      !.buyOrder = o]

\* the levels H of ids are HOLDING, each after its own buy order (numbered
\* in the order of the level ids) was filled and recorded; the others READY
HeldOrder(H, l) == Cardinality({k \in H : k <= l})
HeldLevel(H, o) == CHOOSE l \in H : HeldOrder(H, l) = o
LevelsHolding(ids, H) ==
  [l \in ids |-> IF l \in H THEN HoldingLevel(l, HeldOrder(H, l)) ELSE NewLevel(l)]
VenueHolding(H) ==
  [o \in 1..(MaxOrders + Cardinality(H)) |->
     IF o <= Cardinality(H) THEN FilledBuy(HeldLevel(H, o)) ELSE NoVenueOrder]
RowsHolding(H) ==
  [o \in 1..Cardinality(H) |-> BuyFilledRow(HeldLevel(H, o), o)]

InitMulti ==
  /\ th = [t \in Threads |-> Idle]
  /\ placed = EmptyBag
  /\ errs = {}
  /\ \E H \in SUBSET MultiLevels :
       /\ levels = LevelsHolding(MultiLevels, H)
       /\ venue = VenueHolding(H)
       /\ txs = RowsHolding(H)
  /\ hist = [NoHist EXCEPT !.mode = "multi"]

MultiTrigger ==
  /\ hist.started = 0
  /\ \E p \in MultiPrices :
       /\ th' = [th EXCEPT ![1] = TriggerTask("ETHUSDT", p)]
       /\ hist' = [hist EXCEPT !.started = 1, !.multi.snap = levels,
                               !.multi.price = p]
  /\ UNCHANGED <<levels, audit, venue>>

NextMulti ==
  \/ MultiTrigger
  \/ TbStart(1) \/ TbGateway(1) \/ TbRevert(1) \/ TbError(1)
  \/ TbUpdate(1) \/ TbRecord(1)
  \/ TsStart(1) \/ TsGateway(1) \/ TsRevert(1) \/ TsError(1)
  \/ TsUpdate(1) \/ TsRecord(1)

SpecMulti == InitMulti /\ [][NextMulti]_vars

\* ------------------------------------- scenario: a lost fill notification
\* A level is BUY_ACTIVE or SELL_ACTIVE and no fill notification ever
\* arrives. The venue fills the open order at some time; sweeper runs and
\* price triggers come one after the other, and the gateway answers their
\* status probe or fails to. The venue holds the orders placed before the
\* scenario and has room for MaxOrders more. The SELL_ACTIVE level's buy fill
\* may have left no row (its insert failed and was only logged).
InitReconcile ==
  /\ th = [t \in Threads |-> Idle]
  /\ placed = EmptyBag
  /\ errs = {}
  /\ \/ /\ levels = [l \in Levels |->
             [NewLevel(l) EXCEPT !.state = StateBuyActive, !.buyOrder = 1]]
        /\ txs = <<>>
        /\ venue = [o \in 1..(MaxOrders + 1) |->
             IF o = 1 THEN OpenBuy(1) ELSE NoVenueOrder]
     \/ /\ levels = [l \in Levels |->
             [NewLevel(l) EXCEPT !.state = StateSellActive,
                                 !.filled = Amt(BuyQty(l)),
                                 !.buyOrder = 1, !.sellOrder = 2]]
        /\ txs \in {<<BuyFilledRow(1, 1)>>, <<>>}
        /\ venue = [o \in 1..(MaxOrders + 2) |->
             IF o = 1 THEN FilledBuy(1)
             ELSE IF o = 2 THEN [FilledSell(1) EXCEPT !.st = "open"]
             ELSE NoVenueOrder]
  /\ hist = [NoHist EXCEPT !.mode = "reconcile"]

\* a run starts: what it will find on the venue for the level's order
RunStarts(h) ==
  LET g == levels[1] o == ActiveOrder(g)
  IN [h EXCEPT !.started = @ + 1,
               !.rec = [wasFilled |-> o # NoOrder /\ venue[o].st = "filled",
                        answer |-> "", order |-> o,
                        isBuy |-> g.state = StateBuyActive]]

\* the cron job starts SyncOrders
ReconcileSync ==
  /\ th[1].pc = "idle" /\ hist.started < MaxDeliveries
  /\ th' = [th EXCEPT ![1] =
       Cont([Idle EXCEPT !.pc = "stuck", !.op = "sync",
                         !.list = GetStuckInPlacingState, !.i = 1])]
  /\ hist' = RunStarts(hist)
  /\ UNCHANGED <<levels, audit, venue>>

\* a price trigger for the symbol arrives
ReconcileTrigger ==
  /\ th[1].pc = "idle" /\ hist.started < MaxDeliveries
  /\ \E p \in TriggerPrices : th' = [th EXCEPT ![1] = TriggerTask("ETHUSDT", p)]
  /\ hist' = RunStarts(hist)
  /\ UNCHANGED <<levels, audit, venue>>

\* GetOrderStatus of the run's probe returns
ReconcileProbe ==
  /\ th[1].pc = "chk"
  /\ \E a \in StatusAnswers(th[1].order) :
       /\ th' = [th EXCEPT ![1] = AfterStatus(th[1], a)]
       /\ hist' = [hist EXCEPT !.rec.answer = a]
  /\ UNCHANGED <<levels, audit, venue>>

\* the venue fills an open order between two runs
ReconcileFill ==
  /\ th[1].pc = "idle"
  /\ \E o \in DOMAIN venue : VenueFill(o)

NextReconcile ==
  \/ ReconcileSync \/ ReconcileTrigger \/ ReconcileProbe \/ ReconcileFill
  \/ ActiveLoad(1)
  \/ BfGet(1) \/ BfUpdate(1) \/ BfRecord(1) \/ BfReload(1)
  \/ SfGet(1) \/ SfLastBuy(1) \/ SfUpdate(1) \/ SfRecord(1)
  \/ TsStart(1) \/ TsGateway(1) \/ TsRevert(1) \/ TsError(1)
  \/ TsUpdate(1) \/ TsRecord(1)
  \/ TbStart(1) \/ TbGateway(1) \/ TbRevert(1) \/ TbError(1)
  \/ TbUpdate(1) \/ TbRecord(1)

SpecReconcile == InitReconcile /\ [][NextReconcile]_vars

\* ------------------------------------------------------------- properties
Quiet == \A t \in Threads : th[t].pc = "idle"
FilledRows(o) == Cardinality({k \in 1..Len(txs) : txs[k].order = o})
SideRows(o, side) ==
  Cardinality({k \in 1..Len(txs) : txs[k].order = o /\ txs[k].side = side})
Advances(o) == hist.buyAdv[o] + hist.sellAdv[o]

\* tasks between their successful guarded update of level l and the write of
\* the placement's outcome
Holders(l) ==
  {t \in Threads : th[t].lvl = l /\
     th[t].pc \in {"tb_gw", "tb_upd", "tb_revert",
                   "ts_gw", "ts_upd", "ts_revert", "ts_nofill"}}

\* C1 as stated, for the invocation that holds the level: while one racing
\* price trigger is between its successful guarded update and the write of
\* its placement's outcome, no other invocation is, and no step of another
\* invocation changes the level
C1_HolderUndisturbed ==
  [][\A l \in Levels :
       /\ (Cardinality(Holders(l)) <= 1)'
       /\ \A t \in Holders(l) : th'[t] = th[t] => levels'[l] = levels[l]]_vars

\* C2 as stated: every change of a level's state follows an edge of the
\* state machine, so that no revert overwrites a state advanced meanwhile
Edges ==
  {<<StateReady, StatePlacingBuy>>, <<StatePlacingBuy, StateBuyActive>>,
   <<StatePlacingBuy, StateReady>>, <<StateBuyActive, StateHolding>>,
   <<StateBuyActive, StateReady>>, <<StateHolding, StatePlacingSell>>,
   <<StatePlacingSell, StateSellActive>>, <<StatePlacingSell, StateHolding>>,
   <<StateSellActive, StateReady>>, <<StateSellActive, StateHolding>>}
  \cup {<<st, StateError>> : st \in GridState}
C2_OnlyMachineEdges ==
  [][\A l \in Levels :
       levels'[l].state # levels[l].state =>
         <<levels[l].state, levels'[l].state>> \in Edges]_vars

\* C3 as stated: the same fill notification delivered N times in sequence
\* advances the level once and writes one FILLED row; from the second
\* delivery on neither the level nor the audit log changes; every delivery is
\* answered with success
C3_RedeliveryIdempotent ==
  /\ hist.delivered >= 1 =>
       /\ hist.code = 200
       /\ Advances(hist.note.order) <= 1
       /\ FilledRows(hist.note.order) <= 1
       /\ Quiet => Advances(hist.note.order) = 1 /\ FilledRows(hist.note.order) = 1
  /\ hist.delivered >= 2 => <<levels, txs, placed, errs>> = hist.after1

\* C4 as stated: under concurrent fill processing an order gets exactly one
\* FILLED row and its level advances once
C4_OneFilledRowPerOrder ==
  \A o \in Orders : FilledRows(o) <= 1 /\ Advances(o) <= 1

\* C5 as stated: once a level is in ERROR no operation changes its state
C5_ErrorIsFinal ==
  [][\A l \in Levels :
       levels[l].state = StateError => levels'[l].state = StateError]_vars

\* C6 as stated: a READY level has no order ids and no filled amount
C6_ReadyIsClean ==
  \A l \in Levels :
    levels[l].state = StateReady =>
      /\ levels[l].buyOrder = NoOrder
      /\ levels[l].sellOrder = NoOrder
      /\ ~levels[l].filled.valid

\* C7 as stated: a level is in HOLDING, PLACING_SELL or SELL_ACTIVE iff its
\* filled amount is present and positive
C7_HoldingIffAmount ==
  \A l \in Levels :
    levels[l].state \in {StateHolding, StatePlacingSell, StateSellActive}
      <=> (levels[l].filled.valid /\ levels[l].filled.val > 0)

\* C8: a BUY_ACTIVE level has a buy order id, a SELL_ACTIVE level a sell
\* order id
C8_ActiveHasOrderId ==
  \A l \in Levels :
    /\ levels[l].state = StateBuyActive => levels[l].buyOrder # NoOrder
    /\ levels[l].state = StateSellActive => levels[l].sellOrder # NoOrder

\* C8 witness: a level whose buy order was filled is SELL_ACTIVE with the id
\* of its sell order
C8_SellActiveSeen ==
  \E l \in Levels :
    /\ levels[l].state = StateSellActive
    /\ levels[l].sellOrder # NoOrder
    /\ levels[l].buyOrder # NoOrder /\ hist.buyAdv[levels[l].buyOrder] = 1

\* C9 as stated: when no handler is running, every buy order has as many
\* BUY/FILLED rows as fills that moved its level to HOLDING, every sell
\* order as many SELL/FILLED rows as fills that moved its level to READY
C9_FillsPairedWithRows ==
  Quiet =>
    \A o \in Orders :
      /\ SideRows(o, "BUY") = hist.buyAdv[o]
      /\ SideRows(o, "SELL") = hist.sellAdv[o]

\* C10 as stated: the step that processes a buy fill for a BUY_ACTIVE level
\* sets HOLDING and the notified amount, clears buy_order_id and appends the
\* BUY/FILLED row with executed_price = fill_price and amount_usdt =
\* filled_amount * fill_price, all at once
C10_BuyFillAtomic ==
  [][\A t \in Threads :
       (th[t].pc = "bf_upd" /\ th'[t].pc = "bf_rec"
          /\ levels[th[t].lvl].state = StateBuyActive) =>
         /\ levels'[th[t].lvl].state = StateHolding
         /\ levels'[th[t].lvl].filled = Amt(th[t].amt)
         /\ levels'[th[t].lvl].buyOrder = NoOrder
         /\ Len(txs') = Len(txs) + 1
         /\ txs'[Len(txs')] =
              TxRow(th[t].lvl, "BUY", "FILLED", th[t].order, th[t].fprice,
                    th[t].amt, th[t].amt * th[t].fprice, 0)]_vars

\* C11 as stated: the step that processes a sell fill for a SELL_ACTIVE level
\* sets READY, clears filled_amount and sell_order_id and appends the
\* SELL/FILLED row linked to the level's last BUY/FILLED row, all at once;
\* for a level not in SELL_ACTIVE the processing changes nothing
C11_SellFillAtomic ==
  [][\A t \in Threads :
       (th[t].pc = "sf_upd" /\ th'[t].pc = "sf_rec") =>
         IF levels[th[t].lvl].state = StateSellActive
         THEN /\ levels'[th[t].lvl].state = StateReady
              /\ levels'[th[t].lvl].filled = NullAmt
              /\ levels'[th[t].lvl].sellOrder = NoOrder
              /\ Len(txs') = Len(txs) + 1
              /\ txs'[Len(txs')] =
                   TxRow(th[t].lvl, "SELL", "FILLED", th[t].order, th[t].fprice,
                         th[t].amt, th[t].amt * th[t].fprice,
                         GetLastBuyForLevel(th[t].lvl))
         ELSE levels' = levels /\ audit' = audit]_vars

\* C12 (as amended): after a failed gateway placement the placing trigger
\* writes READY (buy) or HOLDING (sell) to the level, never ERROR, and then
\* records an ERROR row with code order_placement_failed unless a row of the
\* same level, side and error message (the text of the gateway client's
\* error) already exists from the last hour; either
\* way such a row exists afterwards and recording leaves the level as it is
C12_FailedPlacementReverts ==
  [][\A t \in Threads :
       /\ (th[t].pc = "tb_revert" /\ th'[t].pc = "tb_err") =>
            levels'[th[t].lvl].state = StateReady
       /\ (th[t].pc = "ts_revert" /\ th'[t].pc = "ts_err") =>
            levels'[th[t].lvl].state = StateHolding
       /\ (th[t].pc \in {"tb_err", "ts_err"} /\ th'[t].pc # th[t].pc) =>
            LET side == IF th[t].pc = "tb_err" THEN "BUY" ELSE "SELL"
                row == PlacementFailed(th[t].lvl, side, th[t].msg)
            IN /\ row \in errs'
               /\ levels' = levels
               /\ IF ErrorDuplicate(th[t].lvl, side, th[t].msg)
                  THEN errs' = errs
                  ELSE errs' = errs \cup {row}]_vars

\* C12 witness: a trigger's buy placement failed and left its ERROR row, the
\* level was not put into ERROR, and a later trigger has placed the buy order
C12_RetriedAfterFailure ==
  \E l \in Levels :
    /\ hist.mode = "race" /\ Quiet
    /\ hist.fails[l] >= 1
    /\ \E m \in PlaceErrors : PlacementFailed(l, "BUY", m) \in errs
    /\ levels[l].state = StateBuyActive
    /\ \E k \in 1..Len(hist.recs[l]["BUY"]) :
         hist.recs[l]["BUY"][k] = levels[l].buyOrder

\* C12 as stated: every failed placement appends an ERROR row, so that when
\* all triggers have returned there are as many rows as failed placements
C12_EveryFailureAppendsRow ==
  Quiet =>
    \A l \in Levels :
      Cardinality({e \in errs : e.lvl = l /\ e.code = "order_placement_failed"})
        = hist.fails[l]

\* C13 as stated: while a level is in ERROR no step of a price trigger
\* changes its state or calls the gateway for it
C13_ErrorLevelInertToTriggers ==
  [][\A t \in Threads :
       (th[t].op = "trigger" /\ levels[th[t].lvl].state = StateError) =>
         /\ levels'[th[t].lvl].state = StateError
         /\ ~(th[t].pc \in {"tb_gw", "ts_gw"}
              /\ th'[t].pc \in {"tb_upd", "tb_revert", "ts_upd", "ts_revert"})]_vars

\* C14: CanPlaceBuy is true exactly when the level is READY and enabled and
\* the price is above its buy price; it is false at the buy price itself,
\* for a disabled level and in every other state
C14_CanPlaceBuyExact ==
  hist.eval.done =>
    \A l \in Levels :
      LET g == levels[l]
          p == hist.eval.price
      IN /\ hist.eval.buy <=> (g.state = "READY" /\ g.enabled = TRUE /\ p > BuyPrice(l))
         /\ p = BuyPrice(l) => ~hist.eval.buy
         /\ ~g.enabled => ~hist.eval.buy
         /\ g.state # "READY" => ~hist.eval.buy

\* C14 witness: an enabled READY level evaluated just above its buy price
\* may buy
C14_BuyTriggered ==
  /\ hist.eval.done /\ hist.eval.buy
  /\ hist.eval.price = BuyPrice(1) + 1
  /\ levels[1].state = StateReady /\ levels[1].enabled

\* C15: CanPlaceSell is true exactly when the level is HOLDING and enabled,
\* the price is below its sell price and the filled amount is present and
\* positive; at the sell price itself it is false
C15_CanPlaceSellExact ==
  hist.eval.done =>
    \A l \in Levels :
      LET g == levels[l]
          p == hist.eval.price
      IN /\ hist.eval.sell <=>
              (g.state = "HOLDING" /\ g.enabled = TRUE /\ p < SellPrice(l)
                 /\ g.filled.valid = TRUE /\ g.filled.val > 0)
         /\ p = SellPrice(l) => ~hist.eval.sell

\* C15 witness: an enabled HOLDING level with a positive amount evaluated
\* just below its sell price may sell
C15_SellTriggered ==
  /\ hist.eval.done /\ hist.eval.sell
  /\ hist.eval.price = SellPrice(1) - 1
  /\ levels[1].state = StateHolding /\ levels[1].enabled
  /\ levels[1].filled = Amt(2)

\* C16 as stated: for such a level CanPlaceSell is true when the price is at
\* or above the sell price and false when it is below
C16_SellAtOrAboveSellPrice ==
  hist.eval.done =>
    \A l \in Levels :
      (levels[l].state = StateHolding /\ levels[l].enabled
         /\ levels[l].filled.valid /\ levels[l].filled.val > 0) =>
        (hist.eval.sell <=> hist.eval.price >= SellPrice(l))

\* C17 as stated: no step of a price trigger moves a disabled level out of
\* READY or HOLDING or calls the gateway for it
C17_DisabledLevelInert ==
  [][\A l \in Levels :
       (~levels[l].enabled /\ levels[l].state \in {StateReady, StateHolding}) =>
         /\ levels'[l].state = levels[l].state
         /\ \A t \in Threads :
              (th[t].lvl = l /\ th[t].pc \in {"tb_gw", "ts_gw"}) =>
                th'[t].pc = th[t].pc]_vars

\* C18 as stated: a HOLDING level whose filled amount is 0 is never moved to
\* PLACING_SELL, and no sell placement is requested for a zero amount
C18_ZeroAmountNeverSold ==
  [][/\ \A l \in Levels :
          (levels[l].state = StateHolding /\ levels[l].filled = Amt(0)) =>
            levels'[l].state # StatePlacingSell
     /\ \A t \in Threads :
          (th[t].pc = "ts_gw" /\ th'[t].pc \in {"ts_upd", "ts_revert"}) =>
            th[t].filled.val > 0]_vars

\* C19 as stated: when the sweeper retries the placement of a stuck
\* PLACING_BUY level that no running task is working on, the retry returns the order the venue already holds
\* for the level or places the first one, so the venue then holds one open
\* buy order for the level
C19_RetryKeepsOneOrder ==
  [][\A t \in Threads :
       (/\ th[t].pc = "sy_gw" /\ th[t].isBuy /\ th'[t].pc = "sy_upd"
        /\ \A u \in Threads \ {t} : th[u].pc = "idle") =>
         Cardinality({o \in Orders :
                        /\ venue'[o].st = "open" /\ venue'[o].side = "buy"
                        /\ venue'[o].lvl = th[t].lvl}) = 1]_vars

\* C20 as stated: with the sweeper scheduled fairly and a gateway that
\* answers, a level in PLACING_BUY or PLACING_SELL eventually leaves it
C20_PlacingEventuallyLeaves ==
  \A l \in Levels :
    (levels[l].state \in {StatePlacingBuy, StatePlacingSell})
      ~> (levels[l].state \notin {StatePlacingBuy, StatePlacingSell})

\* C21 as stated: when the gateway reported a level's order as cancelled or
\* not found, the step that reverts the level puts a BUY_ACTIVE / PLACING_BUY
\* level to READY and a SELL_ACTIVE / PLACING_SELL level to HOLDING, clears
\* the order id it asked about and writes no FILLED row
C21_CancelledRevertsAndClears ==
  [][\A t \in Threads :
       LET l == th[t].lvl
           from == IF th[t].isBuy THEN {StateBuyActive, StatePlacingBuy}
                   ELSE {StateSellActive, StatePlacingSell}
       IN (/\ th[t].pc = "chk_revert" /\ th'[t].pc # "chk_revert"
           /\ levels' # levels /\ levels[l].state \in from) =>
            /\ levels'[l].state = RevertState(th[t].isBuy)
            /\ IF th[t].isBuy THEN levels'[l].buyOrder = NoOrder
               ELSE levels'[l].sellOrder = NoOrder
            /\ txs' = txs]_vars

\* C22 as stated: for an order the gateway reports as filled, a second path
\* run from the same start with the same amount and price leaves the same
\* filled amount and order id on the level and the same FILLED rows as the
\* first path did, whichever two of the webhook and the order checks they are
C22_SweeperSameAsWebhook ==
  (hist.mode = "paths" /\ hist.runs = 1 /\ hist.path # "" /\ Quiet) =>
    PathResult = hist.first[2]

\* C23 as stated: while the orders placed so far are all still open, calls
\* of the gateway's place with identical parameters within the idempotency
\* window, overlapping or not, have all returned the same order id and the
\* venue holds one order
C23_SamePlacementSameOrder ==
  (hist.mode = "gateway" /\ \A o \in Orders : venue[o].st \in {"none", "open"}) =>
    /\ Cardinality(hist.ids) <= 1
    /\ Cardinality({o \in Orders : venue[o].st # "none"}) <= 1

\* C24: initializing a grid again with the same parameters leaves the set of
\* levels of the first initialization: no (buy_price, sell_price) ever exists
\* twice, whatever overlaps; no statement of an initialization changes or
\* removes a level that exists; and a call that begins after a call of the
\* same entry point has completed adds no level at all
GridKeys == {<<levels[k].buy, levels[k].sell>> : k \in 1..Len(levels)}
C24_SecondInitChangesNothing ==
  [][hist.mode = "grid" =>
       /\ Cardinality(GridKeys') = Len(levels')
       /\ hist'.grid.by # 0 =>
            /\ Len(levels') >= Len(levels)
            /\ SubSeq(levels', 1, Len(levels)) = levels
            /\ hist'.grid.by \in hist'.grid.rerun => levels' = levels]_vars

\* C24 witness: a grid of two levels, one of them meanwhile in PLACING_BUY,
\* has been initialized a second time through the same entry point
C24_InitializedTwice ==
  /\ hist.mode = "grid" /\ hist.grid.again
  /\ Len(levels) >= 2
  /\ \E k \in 1..Len(levels) : levels[k].state = StatePlacingBuy

\* C25 as stated: a grid initialization that completes, through POST /grids
\* or through -init-grid, leaves exactly the levels (min_price + k * step,
\* min_price + (k + 1) * step), k = 0, 1, ..., whose sell price is at most
\* max_price, and every level it adds is READY and enabled with sell_price >
\* buy_price; a level whose sell price is cut to max_price is not created
GridExpected(p) ==
  {<<p[1] + k * p[3], p[1] + (k + 1) * p[3]>> :
     k \in {j \in 0..p[2] : p[1] + (j + 1) * p[3] <= p[2]}}
C25_ExactlyTheGridLevels ==
  [][(hist.mode = "grid" /\ hist.grid.params[3] > 0) =>
       /\ (/\ hist'.grid.n = hist.grid.n + 1
           /\ hist'.grid.last \in hist'.grid.ran
           /\ (hist'.grid.last \in hist.grid.ran
                 \/ hist'.grid.ran # hist.grid.ran)) =>
            GridKeys' = GridExpected(hist.grid.params)
       /\ hist'.grid.by # 0 =>
            \A k \in (Len(levels) + 1)..Len(levels') :
              /\ levels'[k].state = StateReady /\ levels'[k].enabled
              /\ levels'[k].sell > levels'[k].buy
              /\ levels'[k].sell - levels'[k].buy = hist.grid.params[3]]_vars

\* number of PLACED rows of the table for level l and one side
PlacedRows(l, side) ==
  LET S == {r \in BagToSet(placed) : r.lvl = l /\ r.side = side}
  IN IF S = {} THEN 0
     ELSE IF Cardinality(S) = 1 THEN CopiesIn(CHOOSE r \in S : TRUE, placed)
     ELSE 2

LinkedSells ==
  {k \in 1..Len(txs) : txs[k].side = "SELL" /\ txs[k].status = "FILLED"
                        /\ txs[k].rel # 0}

\* C27 as stated: every SELL/FILLED row with a related_buy_id references a
\* BUY/FILLED row of the same level, and no BUY/FILLED row is referenced by
\* two SELL/FILLED rows
C27_EachBuyRowClosedOnce ==
  /\ \A k \in LinkedSells :
       /\ txs[k].rel \in BuyFilledIdx(txs[k].lvl)
       /\ txs[k].rel < k
  /\ \A j, k \in LinkedSells : txs[j].rel = txs[k].rel => j = k

\* C28 as stated: a price trigger whose placement failed at the gateway has
\* its /trigger-for-price request answered with a 5xx status
C28_FailedPlacementAnswered5xx ==
  \A a \in hist.answers : a.failed => a.code >= 500

\* a request that fails validation: its body does not decode, or its side is
\* neither buy nor sell
FailsValidation(req) == ~req.wellFormed \/ req.side \notin {"buy", "sell"}

\* C29 as stated: a fill or error notification that fails validation is
\* answered with a 4xx status and changes no level and no audit row
C29_InvalidRequestRejected ==
  (hist.mode = "requests" /\ hist.req.kind # "" /\ FailsValidation(hist.req)) =>
    /\ hist.code \in 400..499
    /\ <<levels, txs, errs>> = hist.start

\* the tick of this step was POSTed to the engine
Forwarded == hist.mode = "monitor" /\ hist'.mon.n = hist.mon.n + 1

\* C30 (as amended): a tick is POSTed only if no trigger was acknowledged yet
\* for the symbol, or at least trigger_interval has passed since the last
\* acknowledged one and the price differs from its price by at least
\* min_change_pct; two consecutive acknowledged triggers are at least
\* trigger_interval apart; a failed POST leaves last-seen as it was
C30_ThrottledSinceLastAcknowledged ==
  [][Forwarded =>
       /\ hist.mon.okCur.ok =>
            /\ hist'.mon.cur.at - hist.mon.okCur.at >= TriggerInterval
            /\ Abs(hist'.mon.cur.price - hist.mon.okCur.price) * 100
                 >= MinChangePct * hist.mon.okCur.price
       /\ ~hist'.mon.cur.ok => th' = th
       /\ hist'.mon.cur.ok =>
            th'.has /\ th'.lastPrice = hist'.mon.cur.price
                    /\ th'.lastTrigger >= hist'.mon.cur.at]_vars

\* C30 witness: two triggers were acknowledged, the second exactly
\* trigger_interval after the first, and a tick in between was dropped
C30_TwoAcknowledgedAnIntervalApart ==
  /\ hist.mode = "monitor" /\ hist.mon.okPrev.ok /\ hist.mon.okCur.ok
  /\ hist.mon.okCur.at - hist.mon.okPrev.at = TriggerInterval
  /\ hist.mon.out = "too_soon"

\* C30 as stated: a tick is POSTed only if at least trigger_interval has
\* passed since the last POSTed trigger for the symbol and the price differs
\* from the last POSTed price by at least min_change_pct
C30_ThrottledSinceLastForwarded ==
  [][(Forwarded /\ hist.mon.n > 0) =>
       /\ hist'.mon.cur.at - hist.mon.cur.at >= TriggerInterval
       /\ Abs(hist'.mon.cur.price - hist.mon.cur.price) * 100
            >= MinChangePct * hist.mon.cur.price]_vars

\* the orders open on the venue that were placed for level l on one side
OpenOrders(l, side) ==
  {o \in Orders : venue[o].st = "open" /\ venue[o].lvl = l /\ venue[o].side = side}

\* C31 as stated: for every level and side, at no time are two orders open
\* on the venue that were placed for that level
C31_OneOpenOrderPerLevelSide ==
  \A l \in Levels, side \in {"buy", "sell"} : Cardinality(OpenOrders(l, side)) <= 1

\* the trigger of the several-levels scenario returns with this step
MultiReturns ==
  /\ hist.mode = "multi" /\ hist'.started = 1 /\ th'[1].pc = "idle"
  /\ hist.started = 0 \/ th[1].pc # "idle"

\* what one level looks like after a trigger that handled it alone: as in the
\* snapshot if the price did not trigger it or its placement failed, else
\* active with the order the gateway placed for it
AloneOutcome(row, g, price, ok, v) ==
  IF ~(CanPlaceBuy(g, price) \/ CanPlaceSell(g, price)) \/ ~ok THEN row = g
  ELSE IF CanPlaceBuy(g, price)
  THEN /\ row = [g EXCEPT !.state = StateBuyActive, !.buyOrder = row.buyOrder]
       /\ row.buyOrder # NoOrder /\ v[row.buyOrder].st = "open"
       /\ v[row.buyOrder].lvl = g.id /\ v[row.buyOrder].side = "buy"
  ELSE /\ row = [g EXCEPT !.state = StateSellActive, !.sellOrder = row.sellOrder]
       /\ row.sellOrder # NoOrder /\ v[row.sellOrder].st = "open"
       /\ v[row.sellOrder].lvl = g.id /\ v[row.sellOrder].side = "sell"

\* C32: within one ProcessPriceTrigger call only the level being handled
\* changes and levels of other symbols never do; when the call returns,
\* placement was attempted for exactly the levels of the symbol that the
\* price triggered, whatever failed before them, each such level is as if it
\* had been handled alone, and the request is answered 200
C32_LevelsHandledIndependently ==
  [][hist.mode = "multi" =>
       /\ \A l \in MultiLevels :
            levels'[l] # levels[l] => th[1].lvl = l /\ SymbolOf(l) = "ETHUSDT"
       /\ MultiReturns =>
            /\ \A l \in MultiLevels :
                 LET g == hist'.multi.snap[l]
                     hit == SymbolOf(l) = "ETHUSDT" /\
                              (CanPlaceBuy(g, hist'.multi.price)
                                 \/ CanPlaceSell(g, hist'.multi.price))
                 IN /\ l \in hist'.multi.tried <=> hit
                    /\ hit => l \in hist'.multi.placed \cup hist'.multi.failed
                    /\ AloneOutcome(levels'[l], g, hist'.multi.price,
                                    l \in hist'.multi.placed, venue')
            /\ \A a \in hist'.answers : a.code = 200]_vars

\* C32 witness: the trigger has returned after the placement for level 1
\* failed and the placement for level 2 succeeded
C32_SecondPlacedAfterFirstFailed ==
  /\ hist.mode = "multi" /\ hist.started = 1 /\ th[1].pc = "idle"
  /\ hist.multi.failed = {1} /\ hist.multi.placed = {2}
  /\ levels[2].state \in {StateBuyActive, StateSellActive}
  /\ levels[3] = hist.multi.snap[3]

\* C33: when the update PLACING_BUY->BUY_ACTIVE (PLACING_SELL->SELL_ACTIVE)
\* that follows a successful placement finds the level in another state, it
\* leaves every level as it is, no audit row is written and the task does
\* not go on to record the placement
C33_AbandonedUpdateWritesNothing ==
  [][\A t \in Threads :
       (/\ th[t].pc \in {"tb_upd", "ts_upd"} /\ th'[t].pc # th[t].pc
        /\ levels[th[t].lvl].state #
             (IF th[t].pc = "tb_upd" THEN StatePlacingBuy ELSE StatePlacingSell))
       => /\ levels' = levels /\ audit' = audit
          /\ th'[t].pc \notin {"tb_rec", "ts_rec"}]_vars

\* C33 witness: a buy placement's second update affected zero rows, because
\* the sweeper had advanced the level meanwhile
C33_BuyUpdateAbandoned ==
  /\ hist.mode = "short" /\ "buy" \in hist.abandoned
  /\ levels[1].state # StatePlacingBuy

\* the fill of the run's order was applied and recorded
FillReconciled ==
  LET o == hist.rec.order
  IN IF hist.rec.isBuy
     THEN /\ levels[1].state \in {StateHolding, StatePlacingSell, StateSellActive}
          /\ levels[1].filled = Amt(VenueFillAmount(o))
          /\ \E k \in 1..Len(txs) :
               txs[k].side = "BUY" /\ txs[k].status = "FILLED" /\ txs[k].order = o
     ELSE /\ levels[1].state = StateReady
          /\ \E k \in 1..Len(txs) :
               txs[k].side = "SELL" /\ txs[k].status = "FILLED" /\ txs[k].order = o

\* a sweeper run or price trigger that began after the venue had filled the
\* level's order has returned
RunAfterFillReturned ==
  /\ hist.mode = "reconcile" /\ hist.started >= 1 /\ th[1].pc = "idle"
  /\ hist.rec.wasFilled

\* C34 as stated, for a run whose status probe the gateway answered: after a
\* sweeper run or price trigger that began when the venue had filled the
\* order of a BUY_ACTIVE (SELL_ACTIVE) level, the level is HOLDING or beyond
\* (READY) and the fill is in the audit log
C34_ReconciledAfterNextRun ==
  (RunAfterFillReturned /\ hist.rec.answer # "error") => FillReconciled

\* the last request was a well-formed sell fill notification for the order of
\* a SELL_ACTIVE level that had no BUY/FILLED row, and has been served
SellFillWithoutBuyRow ==
  /\ hist.mode = "requests" /\ th[1].pc = "idle"
  /\ hist.req.kind = "fill" /\ handleFillNotification(hist.req).run = "sell"
  /\ hist.start[1][1].state = StateSellActive
  /\ hist.start[1][1].sellOrder = hist.req.order
  /\ \A k \in 1..Len(hist.start[2]) : hist.start[2][k].side # "BUY"

\* C35 as stated: a sell fill processed for a level without BUY/FILLED row
\* moves the level to READY and appends a SELL/FILLED row without
\* related_buy_id
C35_SellRowWithoutBuyRow ==
  SellFillWithoutBuyRow =>
    /\ levels[1].state = StateReady
    /\ \E k \in 1..Len(txs) :
         /\ txs[k].side = "SELL" /\ txs[k].status = "FILLED"
         /\ txs[k].order = hist.req.order /\ txs[k].rel = 0

\* --------------------------- scenario: the quantity the gateway places
\* Up to MaxOps POST /order-assurance requests reach OrderService.PlaceOrder,
\* two of them at a time, while the venue fills the orders it holds.
\* Quantities are counted in halves of the symbol's step, so that a
\* requested quantity can lie between two steps; prices are whole ticks.
\* The symbol's filters, as getSymbolInfo read them from the exchange:
StepSize == 2
MinQty == 2
MaxQty == 8
MinNotional == 6
PlacePrices == {1, 2, 3}
PlaceAmounts == 1..5

\* quantity.Div(stepSize).Round(0).Mul(stepSize) of the quantity num/den:
\* to the nearest step, halves away from zero
roundToStepSize(num, den, stepSize) ==
  ((2 * num + den * stepSize) \div (2 * den * stepSize)) * stepSize
\* quantity.Div(stepSize).Ceil().Mul(stepSize) of the quantity num/den
roundUpToStepSize(num, den, stepSize) ==
  ((num + den * stepSize - 1) \div (den * stepSize)) * stepSize

\* OrderService.PlaceOrder: the amount of a buy request is in USDT and is
\* divided by the price, the amount of a sell request is the coin quantity.
\* The quantity is the fraction <<numerator, denominator>>.
RequestedQuantity(side, price, amount) ==
  IF side = "buy" THEN <<amount, price>> ELSE <<amount, 1>>

\* BinanceClient.PlaceOrder up to the cache lookup: the quantity sent to the
\* exchange, 0 when the call fails with "exceeds maximum allowed"
PlaceQuantity(side, price, amount) ==
  LET q == RequestedQuantity(side, price, amount)
      quantity == roundToStepSize(q[1], q[2], StepSize)
      adjusted ==
        IF price * quantity < MinNotional
        THEN roundUpToStepSize(MinNotional * 101, 100 * price, StepSize)
        ELSE quantity
      atLeastMin == IF adjusted < MinQty THEN MinQty ELSE adjusted
  IN IF atLeastMin > MaxQty THEN 0 ELSE atLeastMin

\* storeInCache for a request of any price: orderCache[key] = order,
\* replacing the order of the same side, price and quantity
StoreInCachePriced(v, o, price) ==
  [x \in DOMAIN v |->
     IF x = o THEN [v[x] EXCEPT !.cached = TRUE]
     ELSE IF /\ v[x].st # "none" /\ v[x].side = v[o].side
             /\ v[x].qty = v[o].qty /\ hist.place.prices[x] = price
     THEN [v[x] EXCEPT !.cached = FALSE] ELSE v[x]]

InitQuantity ==
  /\ levels = [l \in Levels |-> NewLevel(l)]
  /\ txs = <<>>
  /\ placed = EmptyBag
  /\ errs = {}
  /\ venue = [o \in Orders |-> NoVenueOrder]
  /\ th = [t \in Threads |-> Idle]
  /\ hist = [NoHist EXCEPT !.mode = "quantity"]

\* the answer of one POST /order-assurance, as the caller receives it
PlaceAnswer(h, r, out, id) ==
  [h EXCEPT !.place.side = IF r.isBuy THEN "buy" ELSE "sell",
            !.place.price = r.price, !.place.amount = r.amt,
            !.place.out = out, !.place.id = id]

\* one POST /order-assurance up to PlaceOrder's first request: the filters'
\* error; or getFromCache for the symbol, side, price and quantity, which
\* finds the cached order when the cache is not older than cacheExpiry
\* (then GetOrder follows) and nothing otherwise (then the order request
\* follows). Requests are served concurrently.
PlaceRequest(t) ==
  /\ th[t].pc = "idle"
  /\ hist.place.n < MaxOps
  /\ \A u \in MainThreads : u < t => th[u].pc # "idle"
  /\ \E side \in {"buy", "sell"}, price \in PlacePrices, amount \in PlaceAmounts :
       LET quantity == PlaceQuantity(side, price, amount)
           H == {o \in DOMAIN venue :
                   /\ venue[o].st # "none" /\ venue[o].cached
                   /\ venue[o].side = side /\ venue[o].qty = quantity
                   /\ hist.place.prices[o] = price}
           r == [Idle EXCEPT !.op = "place", !.isBuy = (side = "buy"),
                             !.price = price, !.amt = amount]
           asked == [hist EXCEPT !.place.n = @ + 1]
       IN IF quantity = 0
          THEN /\ th' = th
               /\ hist' = PlaceAnswer(asked, r, "error", NoOrder)
          ELSE /\ hist' = asked
               /\ \/ /\ H # {}
                     /\ th' = [th EXCEPT ![t] =
                          [r EXCEPT !.pc = "pl_status", !.order = FirstOf(H)]]
                  \/ th' = [th EXCEPT ![t] = [r EXCEPT !.pc = "pl_post"]]
  /\ UNCHANGED <<levels, audit, venue>>

\* GetOrder for the cached order: it is returned if the request succeeded
\* and the order is NEW or PARTIALLY_FILLED, else a new order is placed
PlaceStatus(t) ==
  LET r == th[t]
  IN /\ r.pc = "pl_status"
     /\ \E ok \in BOOLEAN :
          IF ok /\ venue[r.order].st = "open"
          THEN /\ th' = [th EXCEPT ![t] = Idle]
               /\ hist' = PlaceAnswer(hist, r, "cached", r.order)
          ELSE /\ th' = [th EXCEPT ![t].pc = "pl_post", ![t].order = NoOrder]
               /\ UNCHANGED hist
     /\ UNCHANGED <<levels, audit, venue>>

\* POST /api/v3/order with the adjusted quantity: the request fails; or the
\* exchange has the new order, and the call goes on to store it or returns
\* an error all the same (the answer could not be read or decoded)
PlacePost(t) ==
  LET r == th[t]
      side == IF r.isBuy THEN "buy" ELSE "sell"
      new == [st |-> "open", side |-> side, lvl |-> 1,
              qty |-> PlaceQuantity(side, r.price, r.amt), cached |-> FALSE]
  IN /\ r.pc = "pl_post"
     /\ \/ /\ th' = [th EXCEPT ![t] = Idle]
           /\ hist' = PlaceAnswer(hist, r, "error", NoOrder)
           /\ UNCHANGED venue
        \/ /\ NextOrderId \in DOMAIN venue
           /\ venue' = [venue EXCEPT ![NextOrderId] = new]
           /\ \/ /\ th' = [th EXCEPT ![t].pc = "pl_store",
                                     ![t].resp = NextOrderId]
                 /\ hist' = [hist EXCEPT !.place.prices[NextOrderId] = r.price]
              \/ /\ th' = [th EXCEPT ![t] = Idle]
                 /\ hist' = PlaceAnswer(
                      [hist EXCEPT !.place.prices[NextOrderId] = r.price],
                      r, "error", NoOrder)
     /\ UNCHANGED <<levels, audit>>

\* storeInCache(cacheKey, &order) and the return of the order the call placed
PlaceStore(t) ==
  LET r == th[t]
  IN /\ r.pc = "pl_store"
     /\ venue' = StoreInCachePriced(venue, r.resp, r.price)
     /\ th' = [th EXCEPT ![t] = Idle]
     /\ hist' = PlaceAnswer(hist, r, "placed", r.resp)
     /\ UNCHANGED <<levels, audit>>

NextQuantity ==
  \/ \E t \in MainThreads :
       PlaceRequest(t) \/ PlaceStatus(t) \/ PlacePost(t) \/ PlaceStore(t)
  \/ \E o \in DOMAIN venue : VenueFill(o)

SpecQuantity == InitQuantity /\ [][NextQuantity]_vars

\* C36 as stated: a sell order that the gateway places has at most the
\* quantity of its request (the level's filled_amount); a sell request whose
\* notional is below the minimum fails instead
C36_SellNeverAboveRequested ==
  (hist.mode = "quantity" /\ hist.place.side = "sell"
     /\ hist.place.out = "placed") =>
    /\ venue[hist.place.id].qty <= hist.place.amount
    /\ hist.place.price * hist.place.amount >= MinNotional

\* ------------------------------ scenario: error notifications over time
\* Level 1 is SELL_ACTIVE, so both its buy order and its sell order are found
\* by error notifications. Up to MaxOps notifications arrive, two of them
\* may be served at once, and the clock (hist.now, in half hours) advances
\* between the steps. errs holds the ERROR rows whose created_at is later
\* than one hour before now.
Hour == 2

InitErrors ==
  /\ th = [t \in Threads |-> Idle]
  /\ placed = EmptyBag
  /\ errs = {}
  /\ levels = [l \in Levels |->
       [NewLevel(l) EXCEPT !.state = StateSellActive, !.filled = Amt(BuyQty(l)),
                           !.buyOrder = 1, !.sellOrder = 2]]
  /\ txs = <<BuyFilledRow(1, 1)>>
  /\ venue = [o \in Orders |->
       IF o = 1 THEN FilledBuy(1)
       ELSE IF o = 2 THEN [FilledSell(1) EXCEPT !.st = "open"]
       ELSE NoVenueOrder]
  /\ hist = [NoHist EXCEPT !.mode = "errors"]

\* created_at > datetime('now', '-1 hour'), evaluated at time now
WithinLastHour(at, now) == at > now - Hour

ClockAdvances ==
  /\ hist.now < MaxTime
  /\ hist' = [hist EXCEPT !.now = @ + 1]
  /\ errs' = {hist.errlog[k].row : k \in
                {j \in 1..Len(hist.errlog) :
                   WithinLastHour(hist.errlog[j].at, hist.now + 1)}}
  /\ UNCHANGED <<levels, txs, placed, venue, th>>

NextErrors ==
  \/ \E t \in MainThreads :
       \/ CanStart(t) /\ \E o \in Orders, msg \in ErrMsgs : StartError(t, o, msg)
       \/ ErUpdate(t) \/ ErRecord(t)
  \/ ClockAdvances

SpecErrors == InitErrors /\ [][NextErrors]_vars

SameErrorKey(a, b) == a.lvl = b.lvl /\ a.side = b.side /\ a.msg = b.msg

\* C37: two ERROR rows of the same level, side, target price and message are
\* at least one hour apart, whether the recordings overlap or not; and after
\* every recording an ERROR row with that key exists from the last hour, so
\* the first identical error after the hour is appended again
C37_OneErrorRowPerHour ==
  [][hist'.mode = "errors" =>
       /\ \A i, j \in 1..Len(hist'.errlog) :
            (i < j /\ SameErrorKey(hist'.errlog[i].row, hist'.errlog[j].row)) =>
              hist'.errlog[j].at - hist'.errlog[i].at >= Hour
       /\ \A t \in MainThreads :
            (th[t].pc = "er_rec" /\ th'[t].pc = "idle") =>
              \E k \in 1..Len(hist'.errlog) :
                /\ SameErrorKey(hist'.errlog[k].row,
                                [lvl |-> th[t].lvl, msg |-> th[t].msg,
                                 side |-> IF th[t].isBuy THEN "BUY" ELSE "SELL"])
                /\ WithinLastHour(hist'.errlog[k].at, hist.now)]_vars

\* C37 witness: three identical error notifications were served; one of them
\* came within the hour of a recorded one and left no row, and the two rows
\* they left are an hour or more apart
C37_SkippedThenAppendedAgain ==
  /\ hist.mode = "errors" /\ hist.started = 3
  /\ \A t \in Threads : th[t].pc = "idle"
  /\ Len(hist.errlog) = 2
  /\ SameErrorKey(hist.errlog[1].row, hist.errlog[2].row)

\* ------------------------------ scenario: two levels with one buy price
\* Levels 1 and 4 of one symbol have the same buy price and buy amount and
\* different sell prices. Each is READY, or HOLDING with the amount and the
\* id of its filled buy order, which the venue and the audit log hold; price
\* triggers for the symbol run one after the other, and the venue may
\* fill what is open.
TwinPrices == {5}

InitTwins ==
  /\ th = [t \in Threads |-> Idle]
  /\ placed = EmptyBag
  /\ errs = {}
  /\ \E H \in SUBSET TwinLevels :
       /\ levels = LevelsHolding(TwinLevels, H)
       /\ venue = VenueHolding(H)
       /\ txs = RowsHolding(H)
  /\ hist = [NoHist EXCEPT !.mode = "twins"]

TwinTrigger ==
  /\ th[1].pc = "idle"
  /\ hist.started < MaxTriggers
  /\ \E p \in TwinPrices : StartTrigger(1, "ETHUSDT", p)

NextTwins ==
  \/ TwinTrigger
  \/ CheckStatus(1)
  \/ BfGet(1) \/ BfUpdate(1) \/ BfRecord(1) \/ BfReload(1)
  \/ SfGet(1) \/ SfLastBuy(1) \/ SfUpdate(1) \/ SfRecord(1)
  \/ TbStart(1) \/ TbGateway(1) \/ TbRevert(1) \/ TbError(1)
  \/ TbUpdate(1) \/ TbRecord(1)
  \/ TsStart(1) \/ TsGateway(1) \/ TsRevert(1) \/ TsError(1)
  \/ TsUpdate(1) \/ TsRecord(1)
  \/ \E o \in DOMAIN venue : VenueFill(o)

SpecTwins == InitTwins /\ [][NextTwins]_vars

\* C38 as stated: no two levels hold the same buy_order_id, and no two the
\* same sell_order_id
C38_OrderIdsDistinctAcrossLevels ==
  \A l1, l2 \in DOMAIN levels :
    l1 # l2 =>
      /\ levels[l1].buyOrder # NoOrder => levels[l1].buyOrder # levels[l2].buyOrder
      /\ levels[l1].sellOrder # NoOrder => levels[l1].sellOrder # levels[l2].sellOrder

\* ------------------------------ scenario: a trigger with an old snapshot
\* Level 1 is HOLDING after the fill of buy order 1. A price trigger loads the levels and is then delayed
\* before its tryPlaceSellOrder (task 1); meanwhile other triggers and fill
\* notifications are served one after the other (task 2). A notification
\* carries the order's quantity or less (the handler accepts any decimal).
StaleAmounts(o) == {VenueFillAmount(o), VenueFillAmount(o) - 1}

InitStale ==
  /\ th = [t \in Threads |-> Idle]
  /\ placed = EmptyBag
  /\ errs = {}
  /\ levels = LevelsHolding(Levels, Levels)
  /\ venue = VenueHolding(Levels)
  /\ txs = RowsHolding(Levels)
  /\ hist = [NoHist EXCEPT !.mode = "stale"]

StaleTrigger ==
  /\ hist.started = 0
  /\ \E p \in RacePrices : StartTrigger(1, "ETHUSDT", p)

LaterRequest ==
  /\ hist.started \in 1..MaxTriggers
  /\ th[2].pc = "idle"
  /\ \/ \E p \in RacePrices : StartTrigger(2, "ETHUSDT", p)
     \/ \E o \in DOMAIN venue : \E amt \in StaleAmounts(o) :
          StartFill(2, o, amt, VenueFillPrice(o))

NextStale ==
  \/ StaleTrigger
  \/ LaterRequest
  \/ \E t \in MainThreads :
       \/ TbStart(t) \/ TbGateway(t) \/ TbRevert(t) \/ TbError(t)
       \/ TbUpdate(t) \/ TbRecord(t)
       \/ TsStart(t) \/ TsGateway(t) \/ TsRevert(t) \/ TsError(t)
       \/ TsUpdate(t) \/ TsRecord(t)
       \/ CheckStatus(t)
       \/ BfGet(t) \/ BfUpdate(t) \/ BfRecord(t) \/ BfReload(t)
       \/ SfGet(t) \/ SfLastBuy(t) \/ SfUpdate(t) \/ SfRecord(t)
  \/ \E o \in DOMAIN venue : VenueFill(o)

SpecStale == InitStale /\ [][NextStale]_vars

\* C39 as stated: when the guarded HOLDING -> PLACING_SELL update succeeds,
\* the amount the task goes on to request from the gateway is the level's
\* filled_amount stored at that moment
C39_SellAmountIsStoredAmount ==
  [][\A t \in Threads :
       (th[t].pc = "ts_start" /\ th'[t].pc \in {"ts_gw", "ts_nofill"}) =>
         th'[t].filled = levels[th[t].lvl].filled]_vars

\* C40: a tick whose POST fails leaves last_trigger and last_price as they
\* were, and as long as the last POST made is a failed one, a tick with the
\* price of that attempt is neither throttled nor filtered
C40_FailedPostLeavesNoTrace ==
  [][hist'.mode = "monitor" =>
       /\ (hist'.mon.n # hist.mon.n /\ ~hist'.mon.cur.ok) => th' = th
       /\ (hist'.mon.n > 0 /\ ~hist'.mon.cur.ok) =>
            handlePriceUpdate(th', hist'.now, hist'.mon.cur.price, TRUE,
                              hist'.now).out = "sent"]_vars

\* C40 witness: a trigger was forwarded before, and the POST of the last
\* tick has failed
C40_PostFailedAfterForwarded ==
  /\ hist.mode = "monitor" /\ hist.mon.out = "failed"
  /\ th.has /\ ~hist.mon.cur.ok /\ hist.mon.n >= 2

====
